---- MODULE Spec2Model ----
(***************************************************************************)
(* Pandora: the on-disk state machine of the package manager.              *)
(*                                                                         *)
(*   - the archive reader do_unpack and its path sanitizer                 *)
(*     (src/src/cli/cli.c),                                                *)
(*   - the store importer store_import_pkg_atomic (src/unnamed/part_005)   *)
(*     with its unpack hook unpack_pkg_to_dir                              *)
(*     (src/src/unpack_and_validate.c),                                    *)
(*   - the profile assembler and activator profile_assemble_tmp and        *)
(*     profile_atomic_activate (src/unnamed/part_002).                     *)
(*                                                                         *)
(* C strings are sequences of one-character strings; a path handed to a    *)
(* system call is split on "/" by the kernel walk below.  A directory      *)
(* tree is a set of nodes [path, kind, data] whose paths are relative to   *)
(* the root of the tree.                                                   *)
(***************************************************************************)
EXTENDS Integers, Sequences, FiniteSets, TLC

VARIABLES
    \* ---- do_unpack (one run of the archiver) ----
    upc,        \* position of the run: "start", "table", "blobs", "done", "dead"
    ucount,     \* entry_count read from the header
    recs,       \* recs[]: the table after sanitizing
    ui,         \* index of the next entry of the blob loop
    ufs,        \* the tree below dest
    umanifest,  \* lines written to dest/.manifest (NoManifest: not created)
    uout,       \* operations that resolved to a location outside dest
    ubefore,    \* history: tree, outside effects and manifest lines as they
                \* were when the latest iteration of the blob loop began
    \* ---- store_import_pkg_atomic (processes importing into R/store) ----
    sfs,        \* the tree below the Pandora root R
    pkgKind,    \* what pkg_path names: "file", "missing" or "dir"
    cwdArc,     \* what "--extract" names in the working directory
    imp,        \* imp[p]: the call of process p (position, arguments, locals)
    spub,       \* history: the nodes of the entries store/<n>/<v>, as they
                \* were when the entry was first there
    \* ---- profile_assemble_tmp and profile_atomic_activate ----
    pfs,        \* the tree below R seen by the profile manager: profiles/,
                \* vir, vir-new, tmp/ and the store paths entries point to
    prof,       \* prof[p]: the calls of process p (position, locals, result)
    pact,       \* history: what R/vir named when the latest call of
                \* profile_atomic_activate began, and that call's final profile
    \* ---- the install command ----
    inst,       \* inst[p]: the run of the install command in process p
                \* (position, arguments, exit status; history: the stage it
                \* ended at, its place in the order of the runs, and the two
                \* trees as they were when it began)
    \* ---- the archiver's pack command ----
    pack,       \* the run of do_pack: position, the argument and the tree it
                \* names, the directories nftw still has to read, g_recs, and
                \* the archive file written
    \* ---- library calls, each modelled on its own ----
    sha,        \* the streaming hasher: position, the bytes fed so far, the
                \* context (buf[0..buflen), bitlen) and, for h[], the blocks
                \* sha256_transform has compressed
    hx,         \* a hex conversion: position, the digest encoded (if any), the
                \* string handed to hex_to_bin, outlen, the bytes written to
                \* out and the value returned
    rcl,        \* a run of the install command as far as the registry client
                \* goes: position and flags of main, the client's index_acl
                \* field, the state of the parsed index block on the heap and
                \* who freed it, and how the run ended
    fnd,        \* a lookup in a parsed index: position, the keys present in the
                \* index, the name and version asked for, and what
                \* registry_client_find_manifest_url / _find_pkg_url returned
    dl,         \* a call of downloader_stream_to_temp_with_sha256: position,
                \* which of its two sources, the body served, the temporary
                \* file, the two out parameters and the return value
    ftc,        \* fetch_package(name, version), run twice: position, the files
                \* at the index, manifest and package path, the return value
                \* and why, and what the first run left
    rts,        \* root discovery: the environment ($PANDORA_HOME, $HOME) and
                \* the Pandora root each component resolved in it
    idn,        \* an install of a package identity given on the command line:
                \* position, the name and version, the tree around the root
                \* before and now, and the return value
    nrm,        \* normalize_relpath on the relpaths of two profile entries:
                \* position, the two relpaths, the results of normalizing
                \* the first once and twice, and what the conflict check said
    vld,        \* two calls of store_validate_unpacked_tree, one after the
                \* other: position, the path and the tree handed to each,
                \* the static g_validate_err, and the two return values
    stm,        \* do_unpack reading an archive byte by byte, then a second
                \* archive that differs from it in the blob_offset fields:
                \* position in the code, the tables, the blob region, the
                \* read position, the records, the tree and the manifest
    pkc         \* do_pack on files that other processes write meanwhile:
                \* position in the code, the files, g_recs, the table and
                \* the blob bytes written, and where each blob began

uvars == <<upc, ucount, recs, ui, ufs, umanifest, uout, ubefore>>

ivars == <<sfs, pkgKind, cwdArc, imp, spub>>

pvars == <<pfs, prof, pact>>

mvars == <<inst>>

kvars == <<pack>>

lvars == <<sha, hx, rcl, fnd, dl, ftc, rts, idn, nrm, vld, stm, pkc>>

vars == <<upc, ucount, recs, ui, ufs, umanifest, uout, ubefore,
          sfs, pkgKind, cwdArc, imp, spub, pfs, prof, pact, inst, pack, sha, hx, rcl, fnd, dl, ftc, rts, idn, nrm, vld, stm, pkc>>

----
\* ---- bounds of the model ----

\* longest stored path (in characters) of the entry of a one-entry archive
MaxPathLen == 6

\* longest stored path (in characters) of an entry of a longer archive
MaxShortPathLen == 2

\* symbolic links followed in one path resolution before ELOOP
MaxHops == 2

\* PATH_MAX of <limits.h>, the size of the buffers of sanitize_relpath
PATH_MAX == 4096

----
\* ---- strings and paths ----

PathChars == {"/", ".", "a"}

Strings(maxlen) == UNION { [1..n -> PathChars] : n \in 0..maxlen }

\* entry_count values of the archives explored
EntryCounts == {0, 1, 2}

\* the stored paths an archive of n entries may carry
RawPaths(n) == IF n = 1 THEN Strings(MaxPathLen) ELSE Strings(MaxShortPathLen)

\* blobs: the bytes of a regular file, or the target of a symbolic link
FileBlob == <<"a">>
LinkTargets == { <<"/", "a">>, <<"a">> }

\* the component names "." and ".."
Dot == <<".">>
DotDot == <<".", ".">>

\* NULL for a char* (no sanitized path is the empty string)
NULL == <<>>

RECURSIVE SkipSlashes(_, _)
\* while (*cur == '/') cur++;
SkipSlashes(s, i) ==
    IF i <= Len(s) /\ s[i] = "/" THEN SkipSlashes(s, i + 1) ELSE i

RECURSIVE CompEnd(_, _)
\* while (*cur != '/' && *cur != '\0') ...: index one past the component
CompEnd(s, i) ==
    IF i <= Len(s) /\ s[i] # "/" THEN CompEnd(s, i + 1) ELSE i

RECURSIVE Join(_)
\* the components joined with single '/' separators
Join(parts) ==
    IF parts = <<>> THEN <<>>
    ELSE IF Len(parts) = 1 THEN parts[1]
    ELSE parts[1] \o <<"/">> \o Join(Tail(parts))

RECURSIVE Split(_)
\* the components of a path as the kernel sees them: empty components
\* (repeated, leading and trailing slashes) vanish
Split(s) ==
    LET b == SkipSlashes(s, 1)
        e == CompEnd(s, b)
    IN IF b > Len(s) THEN <<>>
       ELSE <<SubSeq(s, b, e - 1)>> \o Split(SubSeq(s, e, Len(s)))

RECURSIVE SumLen(_)
SumLen(parts) ==
    IF parts = <<>> THEN 0 ELSE Len(Head(parts)) + SumLen(Tail(parts))

RECURSIVE SanLoop(_, _, _)
\* the component loop of sanitize_relpath: "." is dropped, ".." pops the
\* previous component and is rejected only when there is none
SanLoop(s, cur, parts) ==
    IF cur > Len(s) THEN [st |-> "ok", parts |-> parts]
    ELSE LET e == CompEnd(s, cur)
             comp == SubSeq(s, cur, e - 1)
             nxt == SkipSlashes(s, e)
         IN IF Len(comp) + 1 >= PATH_MAX THEN [st |-> "null", parts |-> <<>>]
            ELSE IF Len(comp) = 0 THEN SanLoop(s, nxt, parts)
            ELSE IF comp = Dot THEN SanLoop(s, nxt, parts)
            ELSE IF comp = DotDot
                 THEN IF parts = <<>> THEN [st |-> "null", parts |-> <<>>]
                      ELSE SanLoop(s, nxt, SubSeq(parts, 1, Len(parts) - 1))
            ELSE IF Len(parts) + 1 >= PATH_MAX \div 2
                 THEN [st |-> "die", parts |-> <<>>]
            ELSE SanLoop(s, nxt, Append(parts, comp))

RECURSIVE SanLoopKeepRoot(_, _, _)
\* SanLoop with the check for ".." at the archive root left out: the ".."
\* is dropped like "."
SanLoopKeepRoot(s, cur, parts) ==
    IF cur > Len(s) THEN [st |-> "ok", parts |-> parts]
    ELSE LET e == CompEnd(s, cur)
             comp == SubSeq(s, cur, e - 1)
             nxt == SkipSlashes(s, e)
         IN IF Len(comp) = 0 \/ comp = Dot THEN SanLoopKeepRoot(s, nxt, parts)
            ELSE IF comp = DotDot
                 THEN SanLoopKeepRoot(s, nxt,
                          SubSeq(parts, 1, IF parts = <<>> THEN 0 ELSE Len(parts) - 1))
            ELSE SanLoopKeepRoot(s, nxt, Append(parts, comp))

\* where the component loop starts: leading slashes and one leading "./"
SanStart(s) ==
    LET c1 == SkipSlashes(s, 1)
        c2 == IF c1 + 1 <= Len(s) /\ s[c1] = "." /\ s[c1 + 1] = "/"
              THEN c1 + 2 ELSE c1
    IN SkipSlashes(s, c2)

\* sanitize_relpath without the rejection of a ".." that escapes the root
sanitize_relpath_noreject(p) ==
    LET r == SanLoopKeepRoot(p, SkipSlashes(p, 1), <<>>)
    IN IF r.parts = <<>> THEN [st |-> "null", path |-> NULL]
       ELSE [st |-> "ok", path |-> Join(r.parts)]

\* sanitize_relpath(p): [st |-> "ok", path |-> the sanitized string],
\* [st |-> "null"] for NULL, [st |-> "die"] when it calls die()
sanitize_relpath(p) ==
    LET r == SanLoop(p, SanStart(p), <<>>)
        tot == SumLen(r.parts) + (IF r.parts = <<>> THEN 0 ELSE Len(r.parts) - 1)
    IN IF r.st = "die" THEN [st |-> "die", path |-> NULL]
       ELSE IF r.st = "null" \/ r.parts = <<>> THEN [st |-> "null", path |-> NULL]
       ELSE IF tot = 0 \/ tot >= PATH_MAX THEN [st |-> "null", path |-> NULL]
       ELSE [st |-> "ok", path |-> Join(r.parts)]

----
\* ---- a directory tree and the kernel's path walk ----

Has(T, p) == \E n \in T : n.path = p
Node(T, p) == CHOOSE n \in T : n.path = p
Parent(p) == SubSeq(p, 1, Len(p) - 1)
DirNode(p) == [path |-> p, kind |-> "dir", data |-> <<>>]
FileNode(p, blob) == [path |-> p, kind |-> "file", data |-> blob]
LinkNode(p, target) == [path |-> p, kind |-> "link", data |-> target]
Without(T, p) == {n \in T : n.path # p}

RECURSIVE Walk(_, _, _, _, _)
\* Resolution of the components `rest` from the directory `cur` of the
\* tree T.  follow: whether a symbolic link in the last component is
\* followed (open) or not (mkdir, unlink, symlink, lstat).  Result:
\*   "exists"  p names an existing node (<<>> is the root of the tree),
\*   "missing" the parent of p is an existing directory, p does not exist,
\*   "out"     the resolution left the tree (an absolute link target, or
\*             ".." above the root),
\*   "err"     ENOENT / ENOTDIR / ELOOP.
Walk(T, cur, rest, follow, fuel) ==
    IF rest = <<>> THEN [t |-> "exists", p |-> cur]
    ELSE LET c == Head(rest)
             tl == Tail(rest)
             q == Append(cur, c)
         IN IF c = Dot THEN Walk(T, cur, tl, follow, fuel)
            ELSE IF c = DotDot
                 THEN IF cur = <<>> THEN [t |-> "out", p |-> <<>>]
                      ELSE Walk(T, Parent(cur), tl, follow, fuel)
            ELSE IF ~Has(T, q)
                 THEN IF tl = <<>> THEN [t |-> "missing", p |-> q]
                      ELSE [t |-> "err", p |-> q]
            ELSE LET n == Node(T, q)
                 IN IF n.kind = "dir" THEN Walk(T, q, tl, follow, fuel)
                    ELSE IF n.kind = "file"
                         THEN IF tl = <<>> THEN [t |-> "exists", p |-> q]
                              ELSE [t |-> "err", p |-> q]
                    ELSE IF tl = <<>> /\ ~follow THEN [t |-> "exists", p |-> q]
                    ELSE IF fuel = 0 \/ n.data = <<>> THEN [t |-> "err", p |-> q]
                    ELSE IF n.data[1] = "/" THEN [t |-> "out", p |-> q]
                    ELSE Walk(T, cur, Split(n.data) \o tl, follow, fuel - 1)

\* A file-system state of one extraction: the tree, the kinds of operation
\* that took effect outside it, and whether the process called die().
Died(st) == [st EXCEPT !.died = TRUE]

\* mkdir(path, 0755) with EEXIST tolerated, any other error fatal
MkdirOrDie(st, comps) ==
    LET r == Walk(st.fs, <<>>, comps, FALSE, MaxHops)
    IN CASE r.t = "exists" -> {st}
         [] r.t = "missing" -> {[st EXCEPT !.fs = @ \cup {DirNode(r.p)}]}
         [] r.t = "out" -> {[st EXCEPT !.out = @ \cup {"mkdir"}], Died(st)}
         [] OTHER -> {Died(st)}

\* unlink(path), result ignored
UnlinkIgnore(st, comps) ==
    LET r == Walk(st.fs, <<>>, comps, FALSE, MaxHops)
    IN CASE r.t = "exists" /\ r.p # <<>> /\ Node(st.fs, r.p).kind # "dir" ->
                {[st EXCEPT !.fs = Without(@, r.p)]}
         [] r.t = "out" -> {[st EXCEPT !.out = @ \cup {"unlink"}], st}
         [] OTHER -> {st}

\* symlink(target, path), any error fatal
SymlinkOrDie(st, comps, target) ==
    LET r == Walk(st.fs, <<>>, comps, FALSE, MaxHops)
    IN CASE r.t = "missing" -> {[st EXCEPT !.fs = @ \cup {LinkNode(r.p, target)}]}
         [] r.t = "out" -> {[st EXCEPT !.out = @ \cup {"symlink"}], Died(st)}
         [] OTHER -> {Died(st)}

\* fopen(path, "wb"), the blob streamed into it, fclose; any error fatal.
\* open(2) follows a symbolic link in the last component too.
WriteFileOrDie(st, comps, blob) ==
    LET r == Walk(st.fs, <<>>, comps, TRUE, MaxHops)
    IN CASE r.t = "missing" -> {[st EXCEPT !.fs = @ \cup {FileNode(r.p, blob)}]}
         [] r.t = "exists" /\ r.p # <<>> /\ Node(st.fs, r.p).kind = "file" ->
                {[st EXCEPT !.fs = Without(@, r.p) \cup {FileNode(r.p, blob)}]}
         [] r.t = "out" -> {[st EXCEPT !.out = @ \cup {"write"}], Died(st)}
         [] OTHER -> {Died(st)}

\* the states of S whose process is still running, and those where it died
Live(S) == { st \in S : ~st.died }
Dead(S) == { st \in S : st.died }

RECURSIVE MkPrefixes(_, _, _)
\* mkdir of the prefixes of comps of length k, k+1, .. Len(comps)-1
MkPrefixes(S, comps, k) ==
    IF k >= Len(comps) THEN S
    ELSE LET S1 == Dead(S) \cup UNION { MkdirOrDie(st, SubSeq(comps, 1, k)) : st \in Live(S) }
         IN MkPrefixes(S1, comps, k + 1)

\* ensure_parent_dirs(outpath) for outpath = dest/<path>: the prefixes that
\* name dest and its ancestors exist (EEXIST), the others are created
ensure_parent_dirs(st, comps) == MkPrefixes({st}, comps, 1)

----
\* ---- do_unpack: src/src/cli/cli.c ----

\* dest/.manifest as do_unpack holds it: whether the stream is open, the
\* lines printed to it (buffered until fclose or exit), and whether the
\* name dest/.manifest still is the file the stream was opened on
NoManifest == [exists |-> FALSE, lines |-> <<>>, linked |-> FALSE]

\* ".manifest", and the path of dest/.manifest below dest
ManifestName == <<".", "m", "a", "n", "i", "f", "e", "s", "t">>
manifest_path == <<ManifestName>>

RECURSIVE ManifestText(_)
\* the bytes fprintf(manifest, "%s\n", path) produced for these lines
ManifestText(lines) ==
    IF lines = <<>> THEN <<>>
    ELSE Head(lines) \o <<"\n">> \o ManifestText(Tail(lines))

\* fopen(manifest_path, "w"): the file is created, or truncated if the
\* name leads to a regular file; NULL (and die) otherwise
manifest_open(T) ==
    LET r == Walk(T, <<>>, manifest_path, TRUE, MaxHops)
    IN CASE r.t = "missing" -> [ok |-> TRUE, fs |-> T \cup {FileNode(r.p, <<>>)}]
         [] r.t = "exists" /\ r.p # <<>> /\ Node(T, r.p).kind = "file" ->
                [ok |-> TRUE, fs |-> Without(T, r.p) \cup {FileNode(r.p, <<>>)}]
         [] OTHER -> [ok |-> FALSE, fs |-> T]

\* The buffered lines reach the file when the stream is closed or the
\* process exits: they are written from offset 0 of the file the stream
\* was opened on, over whatever an entry of the same name put there.
\* Nothing shows in the tree when that file has been unlinked.
manifest_flush(T, m) ==
    IF ~m.exists \/ ~m.linked \/ m.lines = <<>> THEN T
    ELSE LET old == Node(T, manifest_path).data
             text == ManifestText(m.lines)
             rest == IF Len(old) > Len(text)
                     THEN SubSeq(old, Len(text) + 1, Len(old)) ELSE <<>>
         IN Without(T, manifest_path) \cup {FileNode(manifest_path, text \o rest)}

\* One iteration of the blob loop for an entry with a path.  short: the
\* archive ends inside this blob (fread returns less than asked).
ExtractOutcomes(st, rec, short) ==
    LET comps == Split(rec.path)
        S1 == ensure_parent_dirs(st, comps)
        S2 == Dead(S1) \cup UNION { UnlinkIgnore(s, comps) : s \in Live(S1) }
        S3 == Dead(S2) \cup UNION { SymlinkOrDie(s, comps, rec.blob) : s \in Live(S2) }
        W == Dead(S1) \cup UNION { WriteFileOrDie(s, comps, rec.blob) : s \in Live(S1) }
        W0 == Dead(S1) \cup UNION { { Died(o) : o \in WriteFileOrDie(s, comps, <<>>) } : s \in Live(S1) }
    IN IF rec.flags = 1
       THEN IF short THEN { Died(o) : o \in S1 } ELSE S3
       ELSE IF short THEN W0 ELSE W

\* no importer runs
ImpAtRest ==
    /\ sfs = {}
    /\ pkgKind = "file"
    /\ cwdArc = "absent"
    /\ imp = <<>>
    /\ spub = {}

\* no profile is assembled or activated
ProfAtRest ==
    /\ pfs = {}
    /\ prof = <<>>
    /\ pact = <<>>

\* no install command runs
InstAtRest == inst = <<>>

\* no pack command runs
PackAtRest == pack = <<>>

\* no hasher runs
ShaAtRest == sha = <<>>

\* no hex conversion runs
HexAtRest == hx = <<>>

\* no registry client exists
ClientAtRest == rcl = <<>>

\* no lookup in an index runs
FindAtRest == fnd = <<>>

\* no download to a temporary file runs
DownloadAtRest == dl = <<>>

\* no fetch_package runs
FetchAtRest == ftc = <<>>

\* no component resolves its root
RootsAtRest == rts = <<>>

\* no import of a chosen identity runs
IdentityAtRest == idn = <<>>

\* no relpath is being normalized
NormalizeAtRest == nrm = <<>>

\* no validation of a tree runs
ValidateAtRest == vld = <<>>

\* no archive is unpacked from its bytes
StreamAtRest == stm = <<>>

\* no archive is packed from files that change
RepackAtRest == pkc = <<>>

\* no library call modelled on its own runs, the one named excepted
LibsAtRestBut(me) ==
    /\ me = "sha" \/ ShaAtRest
    /\ me = "hx" \/ HexAtRest
    /\ me = "rcl" \/ ClientAtRest
    /\ me = "fnd" \/ FindAtRest
    /\ me = "dl" \/ DownloadAtRest
    /\ me = "ftc" \/ FetchAtRest
    /\ me = "rts" \/ RootsAtRest
    /\ me = "idn" \/ IdentityAtRest
    /\ me = "nrm" \/ NormalizeAtRest
    /\ me = "vld" \/ ValidateAtRest
    /\ me = "stm" \/ StreamAtRest
    /\ me = "pkc" \/ RepackAtRest

LibAtRest == LibsAtRestBut("")

\* the variables of the library calls stay as they are, the one named excepted
LibsUnchangedBut(me) ==
    /\ me = "sha" \/ UNCHANGED sha
    /\ me = "hx" \/ UNCHANGED hx
    /\ me = "rcl" \/ UNCHANGED rcl
    /\ me = "fnd" \/ UNCHANGED fnd
    /\ me = "dl" \/ UNCHANGED dl
    /\ me = "ftc" \/ UNCHANGED ftc
    /\ me = "rts" \/ UNCHANGED rts
    /\ me = "idn" \/ UNCHANGED idn
    /\ me = "nrm" \/ UNCHANGED nrm
    /\ me = "vld" \/ UNCHANGED vld
    /\ me = "stm" \/ UNCHANGED stm
    /\ me = "pkc" \/ UNCHANGED pkc

\* no archiver runs
UnpAtRest ==
    /\ upc = "start"
    /\ ucount = 0
    /\ recs = <<>>
    /\ ui = 1
    /\ ufs = {}
    /\ umanifest = NoManifest
    /\ uout = {}
    /\ ubefore = [fs |-> {}, out |-> {}, lines |-> <<>>]

UnpInit ==
    /\ ImpAtRest
    /\ ProfAtRest
    /\ InstAtRest
    /\ PackAtRest
    /\ LibAtRest
    /\ upc = "start"
    /\ ucount = 0
    /\ recs = <<>>
    /\ ui = 1
    /\ ufs = {}
    /\ umanifest = NoManifest
    /\ uout = {}
    /\ ubefore = [fs |-> {}, out |-> {}, lines |-> <<>>]

\* lines 452-478: destination, magic, entry_count
UnpOpen(magicOK, n) ==
    /\ upc = "start"
    /\ IF ~magicOK THEN upc' = "dead" /\ ucount' = ucount
       ELSE IF n = 0 THEN upc' = "done" /\ ucount' = 0
       ELSE upc' = "table" /\ ucount' = n
    /\ UNCHANGED <<recs, ui, ufs, umanifest, uout, ubefore>>
    /\ UNCHANGED <<ivars, pvars, mvars, kvars, lvars>>

\* lines 485-517: one iteration of the table loop.  raw is the stored path
\* as read; the code frees it after sanitizing, the record keeps it here
\* so that properties can name it.
UnpReadEntry(raw, flags, blob) ==
    /\ upc = "table"
    /\ Len(recs) < ucount
    /\ LET san == IF Len(raw) = 0 THEN [st |-> "null", path |-> NULL]
                  ELSE sanitize_relpath(raw)
       IN IF san.st = "die" THEN upc' = "dead" /\ recs' = recs
          ELSE /\ upc' = upc
               /\ recs' = Append(recs, [path |-> san.path, size |-> Len(blob),
                                        flags |-> flags, blob |-> blob, raw |-> raw])
    /\ UNCHANGED <<ucount, ui, ufs, umanifest, uout, ubefore>>
    /\ UNCHANGED <<ivars, pvars, mvars, kvars, lvars>>

\* read_u32_le / read_u64_le / fread of a path hit the end of the file
UnpShortTable ==
    /\ upc = "table"
    /\ Len(recs) < ucount
    /\ upc' = "dead"
    /\ UNCHANGED <<ucount, recs, ui, ufs, umanifest, uout, ubefore>>
    /\ UNCHANGED <<ivars, pvars, mvars, kvars, lvars>>

\* lines 519-536: dest/.manifest is created, the stream is positioned
UnpBeginBlobs ==
    /\ upc = "table"
    /\ Len(recs) = ucount
    /\ ui' = 1
    /\ LET o == manifest_open(ufs)
       IN /\ ufs' = o.fs
          /\ upc' = IF o.ok THEN "blobs" ELSE "dead"
          /\ umanifest' = [exists |-> o.ok, lines |-> <<>>, linked |-> o.ok]
    /\ UNCHANGED <<ucount, recs, uout, ubefore>>
    /\ UNCHANGED <<ivars, pvars, mvars, kvars, lvars>>

\* lines 538-594: one iteration of the blob loop
UnpExtract(short) ==
    /\ upc = "blobs"
    /\ ui <= ucount
    /\ ubefore' = [fs |-> ufs, out |-> uout, lines |-> umanifest.lines]
    /\ LET rec == recs[ui]
       IN IF rec.path = NULL
          THEN /\ ui' = ui + 1
               /\ UNCHANGED <<upc, ufs, umanifest, uout>>
          ELSE \E o \in ExtractOutcomes([fs |-> ufs, out |-> uout, died |-> FALSE],
                                        rec, short) :
                  LET linked == /\ umanifest.linked
                                /\ Has(o.fs, manifest_path)
                                /\ Node(o.fs, manifest_path).kind = "file"
                  IN /\ uout' = o.out
                     /\ IF o.died
                        THEN /\ upc' = "dead"
                             /\ ui' = ui
                             /\ umanifest' = [umanifest EXCEPT !.linked = linked]
                             /\ ufs' = manifest_flush(o.fs, umanifest')
                        ELSE /\ upc' = upc
                             /\ ui' = ui + 1
                             /\ umanifest' = [umanifest EXCEPT
                                                 !.lines = Append(@, rec.path),
                                                 !.linked = linked]
                             /\ ufs' = o.fs
    /\ UNCHANGED <<ucount, recs>>
    /\ UNCHANGED <<ivars, pvars, mvars, kvars, lvars>>

\* lines 596-603
UnpFinish ==
    /\ upc = "blobs"
    /\ ui > ucount
    /\ upc' = "done"
    /\ ufs' = manifest_flush(ufs, umanifest)
    /\ UNCHANGED <<ucount, recs, ui, umanifest, uout, ubefore>>
    /\ UNCHANGED <<ivars, pvars, mvars, kvars, lvars>>

UnpNext ==
    \/ \E magicOK \in BOOLEAN, n \in EntryCounts : UnpOpen(magicOK, n)
    \/ \E raw \in RawPaths(ucount), blob \in LinkTargets : UnpReadEntry(raw, 1, blob)
    \/ \E raw \in RawPaths(ucount) : UnpReadEntry(raw, 0, FileBlob)
    \/ UnpShortTable
    \/ UnpBeginBlobs
    \/ \E short \in BOOLEAN : UnpExtract(short)
    \/ UnpFinish

SpecUnpack == UnpInit /\ [][UnpNext]_vars

----
\* ---- properties of do_unpack ----

HasComp(s, c) == \E i \in 1..Len(Split(s)) : Split(s)[i] = c

\* C7: an archive cannot cause writes outside dest: no file is created,
\* truncated or written and no symbolic link is created at a location
\* outside dest, whatever the sequence of entries.
C7_NoWriteOutsideDest == uout \cap {"write", "symlink"} = {}

\* the paths the specification's normalize rejects: absolute, empty, or
\* with a ".." component anywhere
StrictlyInvalid(raw) ==
    \/ Len(raw) = 0
    \/ raw[1] = "/"
    \/ HasComp(raw, DotDot)

RECURSIVE DepthAfter(_, _)
\* the number of components left when "." is dropped and each ".." cancels
\* the component before it; -1 when a ".." has nothing to cancel
DepthAfter(comps, d) ==
    IF comps = <<>> THEN d
    ELSE IF Head(comps) = Dot THEN DepthAfter(Tail(comps), d)
    ELSE IF Head(comps) = DotDot
         THEN IF d = 0 THEN -1 ELSE DepthAfter(Tail(comps), d - 1)
    ELSE DepthAfter(Tail(comps), d + 1)

\* nothing is left of the path, or it climbs above the archive root
EscapesOrEmpty(raw) == DepthAfter(Split(raw), 0) <= 0

TableSanitized ==
    \A i \in 1..Len(recs) :
        /\ (recs[i].path = NULL) <=> EscapesOrEmpty(recs[i].raw)
        /\ recs[i].path # NULL =>
              /\ recs[i].path[1] # "/"
              /\ ~HasComp(recs[i].path, Dot)
              /\ ~HasComp(recs[i].path, DotDot)
              /\ Join(Split(recs[i].path)) = recs[i].path

\* the latest iteration of the blob loop left the tree, the world outside
\* it and the manifest as they were
LastIterationChangedNothing ==
    /\ ufs = ubefore.fs
    /\ uout = ubefore.out
    /\ umanifest.lines = ubefore.lines

----
\* ---- system calls on the tree below the Pandora root R ----
\* A path is the sequence of its components below R.  Each call gives
\* [ok, fs]: whether it returned 0 and the tree it leaves.

Children(T, p) == { n \in T : Parent(n.path) = p /\ Len(n.path) = Len(p) + 1 }
Under(T, p) == { n \in T : Len(n.path) >= Len(p) /\ SubSeq(n.path, 1, Len(p)) = p }
IsDir(T, p) == p = <<>> \/ (Has(T, p) /\ Node(T, p).kind = "dir")

\* mkdir(path, mode): EEXIST if the path exists, ENOENT/ENOTDIR if its
\* parent is not a directory
mkdir(T, p) ==
    IF Has(T, p) THEN [ok |-> FALSE, errno |-> "EEXIST", fs |-> T]
    ELSE IF ~IsDir(T, Parent(p)) THEN [ok |-> FALSE, errno |-> "ENOENT", fs |-> T]
    ELSE [ok |-> TRUE, errno |-> "", fs |-> T \cup {DirNode(p)}]

\* rmdir(path): removes an empty directory only
rmdir(T, p) ==
    IF IsDir(T, p) /\ p # <<>> /\ Children(T, p) = {}
    THEN [ok |-> TRUE, fs |-> Without(T, p)]
    ELSE [ok |-> FALSE, fs |-> T]

\* rename(from, to) of a directory: the target must be missing or an empty
\* directory (ENOTEMPTY otherwise), its parent a directory; the whole
\* subtree moves in one step
rename(T, from, to) ==
    IF /\ IsDir(T, from) /\ from # <<>>
       /\ IsDir(T, Parent(to))
       /\ (~Has(T, to) \/ (IsDir(T, to) /\ Children(T, to) = {}))
       /\ ~(Len(to) >= Len(from) /\ SubSeq(to, 1, Len(from)) = from)
    THEN [ok |-> TRUE,
          fs |-> ((T \ Under(T, from)) \ Under(T, to)) \cup
                 { [n EXCEPT !.path = to \o SubSeq(n.path, Len(from) + 1, Len(n.path))]
                     : n \in Under(T, from) }]
    ELSE [ok |-> FALSE, fs |-> T]

RECURSIVE ensure_dir_p_from(_, _, _)
\* ensure_dir_p: mkdir of every prefix of path from the k-th on, EEXIST
\* tolerated, the first other error returns -1
ensure_dir_p_from(T, p, k) ==
    IF k > Len(p) THEN [ok |-> TRUE, fs |-> T]
    ELSE LET r == mkdir(T, SubSeq(p, 1, k))
         IN IF ~r.ok /\ r.errno # "EEXIST" THEN [ok |-> FALSE, fs |-> T]
            ELSE ensure_dir_p_from(r.fs, p, k + 1)

ensure_dir_p(T, p) == ensure_dir_p_from(T, p, 1)

----
\* ---- store_import_pkg_atomic: src/unnamed/part_005, and its hooks in
\* ---- src/src/unpack_and_validate.c ----

\* the processes that run the importer
Procs == {1, 2}

\* inputs of a call
PkgNames == {"p"}
PkgVersions == {"1"}
Digests == {"d1", "d2"}

\* names mkdtemp can give to store/.tmp-import-XXXXXX
TmpNames == {".tmp-import-aaaaaa", ".tmp-import-bbbbbb"}

\* pkg_path, the downloaded package (outside R), and the relative name
\* "--extract" (resolved in the working directory, outside R)
PkgPath == <<"/tmp", "download.pkg">>
ExtractFlag == <<"--extract">>

\* what a file that is opened as an archive holds: "bad" (no magic),
\* "empty" (entry_count 0) or "entries"; "absent" when there is no file
ArcKinds == {"absent", "bad", "empty", "entries"}

\* the paths store_import_pkg_atomic builds with make_path and snprintf
store_base == <<"store">>
\* (a variant that makes the temp directory inside the entry of p 1)
tmp_dir_in_entry(t) == store_base \o <<"p", "1", t>>
tmp_dir_of(t) == store_base \o <<t>>
\* (a variant that builds the unpack directory in the final place)
unpack_dir_in_store(t, n, v) == store_base \o <<n, v, "files">>
unpack_dir_of(t, n, v) == tmp_dir_of(t) \o <<n, v, "files">>
tmp_pkg_ver_path_of(t, n, v) == tmp_dir_of(t) \o <<n, v>>
final_dir_parent_of(n) == store_base \o <<n>>
final_dir_of(n, v) == final_dir_parent_of(n) \o <<v>>

\* the kind of node a path names for stat/open
NameKind(T, pk, arc, name) ==
    IF name = PkgPath THEN pk
    ELSE IF name = ExtractFlag THEN (IF arc = "absent" THEN "missing" ELSE "file")
    ELSE IF name = <<>> THEN "dir"
    ELSE IF Has(T, name) THEN Node(T, name).kind
    ELSE "missing"

\* what fopen(name) followed by the header reads finds: the downloaded
\* package is a well-formed archive with entries
ArchiveAt(arc, name) ==
    IF name = ExtractFlag THEN arc
    ELSE IF name = PkgPath THEN "entries"
    ELSE "bad"

\* the argv unpack_pkg_to_dir builds (argv[4] is NULL)
unpack_argv(pkg_path, dest_dir) ==
    <<"pandora-archiver", ExtractFlag, pkg_path, dest_dir>>

\* do_unpack(argc, argv) as a whole, seen from the importer: C's argv[1] is
\* the archive name and argv[2] the destination.  Outcomes are
\* [exited, fs, pkg]: die() ends the process.  What the blob loop writes
\* below its destination is one file "a" next to .manifest.
do_unpack(T, pk, arc, argc, argv) ==
    LET arcname == argv[2]
        dest == IF argc >= 3 THEN argv[3] ELSE <<>>
        dk == NameKind(T, pk, arc, dest)
        \* ensure_destdir
        made == IF dk # "missing" THEN [ok |-> dk = "dir", fs |-> T, pkg |-> pk]
                ELSE IF dest = PkgPath THEN [ok |-> TRUE, fs |-> T, pkg |-> "dir"]
                ELSE [ok |-> mkdir(T, dest).ok, fs |-> mkdir(T, dest).fs, pkg |-> pk]
        content == ArchiveAt(arc, arcname)
        manifest == IF dest = PkgPath THEN made.fs
                    ELSE made.fs \cup {FileNode(dest \o <<".manifest">>, <<>>)}
        written == IF dest = PkgPath THEN made.fs
                   ELSE manifest \cup {FileNode(dest \o <<"a">>, FileBlob)}
    IN IF argc < 2 \/ ~made.ok THEN {[exited |-> TRUE, fs |-> T, pkg |-> pk]}
       ELSE IF NameKind(made.fs, made.pkg, arc, arcname) # "file" \/ content = "bad"
       THEN {[exited |-> TRUE, fs |-> made.fs, pkg |-> made.pkg]}
       ELSE IF content = "empty"
       THEN {[exited |-> FALSE, fs |-> made.fs, pkg |-> made.pkg]}
       ELSE {[exited |-> TRUE, fs |-> manifest, pkg |-> made.pkg],
             [exited |-> FALSE, fs |-> written, pkg |-> made.pkg]}

\* unpack_pkg_to_dir(pkg_path, dest_dir): outcomes [exited, rc, fs, pkg]
unpack_pkg_to_dir(T, pk, arc, pkg_path, dest_dir) ==
    LET parents == ensure_dir_p(T, Parent(dest_dir))
        md == mkdir(parents.fs, dest_dir)
    IN IF ~parents.ok \/ (~md.ok /\ md.errno # "EEXIST")
       THEN {[exited |-> FALSE, rc |-> -1, fs |-> md.fs, pkg |-> pk]}
       ELSE { [exited |-> o.exited,
               rc |-> IF IsDir(o.fs, dest_dir) /\ Children(o.fs, dest_dir) # {}
                      THEN 0 ELSE -1,
               fs |-> o.fs,
               pkg |-> o.pkg]
                : o \in do_unpack(md.fs, pk, arc, 4, unpack_argv(pkg_path, dest_dir)) }

\* validate_callback on one node of the walk: a ".." component of the
\* path, a symbolic link with an absolute target or with ".." in it
validate_callback(n) ==
    \/ \E i \in 1..Len(n.path) : n.path[i] = ".."
    \/ /\ n.kind = "link"
       /\ \/ (Len(n.data) > 0 /\ n.data[1] = "/")
          \/ \E i \in 1..(Len(n.data) - 1) : n.data[i] = "." /\ n.data[i + 1] = "."

\* store_validate_unpacked_tree(unpack_path): TRUE when it returns 0
store_validate_unpacked_tree(T, unpack_path) ==
    /\ Has(T, unpack_path)
    /\ \A n \in Under(T, unpack_path) : ~validate_callback(n)

\* Lines 101-163, entered when unpack_pkg_to_dir returned 0: validation,
\* the parent of the final directory, the existence test and the rename.
\* Outcomes are [rc, fs, out].  At lines 125-128 unpack_dir is freed and
\* then handed to rmdir: the call may remove the directory or not.
import_publish(T, t, n, v) ==
    LET unpack_dir == unpack_dir_of(t, n, v)
        tmp_dir == tmp_dir_of(t)
        final_dir == final_dir_of(n, v)
        par == ensure_dir_p(T, final_dir_parent_of(n))
        mv == rename(par.fs, tmp_pkg_ver_path_of(t, n, v), final_dir)
    IN IF ~store_validate_unpacked_tree(T, unpack_dir)
       THEN {[rc |-> -1, fs |-> rmdir(T, tmp_dir).fs, out |-> <<>>]}
       ELSE IF ~par.ok
       THEN {[rc |-> -1, fs |-> rmdir(par.fs, tmp_dir).fs, out |-> <<>>]}
       ELSE IF Has(par.fs, final_dir)
       THEN { [rc |-> -1, fs |-> rmdir(F, tmp_dir).fs, out |-> <<>>]
                : F \in {par.fs, rmdir(par.fs, unpack_dir).fs} }
       ELSE IF ~mv.ok
       THEN {[rc |-> -1, fs |-> rmdir(mv.fs, tmp_dir).fs, out |-> <<>>]}
       ELSE {[rc |-> 0, fs |-> rmdir(mv.fs, tmp_dir).fs, out |-> final_dir]}

\* a process that is not inside a call and has made none
IdleCall ==
    [pc |-> "idle", name |-> "", ver |-> "", sha |-> "", tmp |-> "",
     lvl |-> 0, rc |-> 0, out |-> <<>>, existed |-> FALSE]

\* the tree of a published entry store/<n>/<v>
EntryTree(n, v) ==
    { DirNode(final_dir_parent_of(n)), DirNode(final_dir_of(n, v)),
      DirNode(final_dir_of(n, v) \o <<"files">>),
      FileNode(final_dir_of(n, v) \o <<"files", "a">>, FileBlob) }

\* The root exists.  store/ may not have been created yet, or it holds the
\* complete entry of p 1 published earlier.
ImpInit ==
    /\ UnpAtRest
    /\ ProfAtRest
    /\ InstAtRest
    /\ PackAtRest
    /\ LibAtRest
    /\ sfs \in { {}, {DirNode(store_base)}, {DirNode(store_base)} \cup EntryTree("p", "1") }
    /\ pkgKind \in {"file", "missing"}
    /\ cwdArc \in ArcKinds
    /\ imp = [p \in Procs |-> IdleCall]
    /\ spub = UNION { Under(sfs, final_dir_of(n, v)) : n \in PkgNames, v \in PkgVersions }

\* lines 65-78: the call begins, R/store is ensured
ImpCall(p, n, v, d) ==
    /\ imp[p].pc \in {"idle", "returned"}
    /\ LET r == ensure_dir_p(sfs, store_base)
       IN /\ sfs' = r.fs
          /\ imp' = [imp EXCEPT ![p] =
                       [pc |-> IF r.ok THEN "mkdtemp" ELSE "returned",
                        name |-> n, ver |-> v, sha |-> d, tmp |-> "", lvl |-> 0,
                        rc |-> IF r.ok THEN 0 ELSE -1, out |-> <<>>,
                        existed |-> Has(sfs, final_dir_of(n, v))]]
    /\ UNCHANGED <<pkgKind, cwdArc, spub, uvars, pvars, mvars, kvars, lvars>>

\* lines 81-84: mkdtemp creates store/.tmp-import-XXXXXX under a name that
\* is not in use
ImpMkdtemp(p, t) ==
    /\ imp[p].pc = "mkdtemp"
    /\ ~Has(sfs, tmp_dir_of(t))
    /\ sfs' = mkdir(sfs, tmp_dir_of(t)).fs
    /\ imp' = [imp EXCEPT ![p].pc = "mkdirs", ![p].tmp = t, ![p].lvl = 0]
    /\ UNCHANGED <<pkgKind, cwdArc, spub, uvars, pvars, mvars, kvars, lvars>>

\* lines 87-90: ensure_dir_p(tmp_dir) and ensure_dir_p(unpack_dir), one
\* mkdir of a prefix of unpack_dir per step
ImpMkUnpackDir(p) ==
    /\ imp[p].pc = "mkdirs"
    /\ LET unpack_dir == unpack_dir_of(imp[p].tmp, imp[p].name, imp[p].ver)
           k == imp[p].lvl + 1
           r == mkdir(sfs, SubSeq(unpack_dir, 1, k))
       IN /\ r.ok \/ r.errno = "EEXIST"
          /\ sfs' = r.fs
          /\ imp' = [imp EXCEPT ![p].lvl = k,
                                ![p].pc = IF k = Len(unpack_dir) THEN "unpack" ELSE "mkdirs"]
    /\ UNCHANGED <<pkgKind, cwdArc, spub, uvars, pvars, mvars, kvars, lvars>>

\* line 90: a mkdir of ensure_dir_p(unpack_dir) fails (ENOSPC, EACCES, ...
\* or ENOENT): rmdir(tmp_dir), return -1
ImpMkdirFails(p) ==
    /\ imp[p].pc = "mkdirs"
    /\ LET unpack_dir == unpack_dir_of(imp[p].tmp, imp[p].name, imp[p].ver)
       IN ~Has(sfs, SubSeq(unpack_dir, 1, imp[p].lvl + 1))
    /\ sfs' = rmdir(sfs, tmp_dir_of(imp[p].tmp)).fs
    /\ imp' = [imp EXCEPT ![p].pc = "returned", ![p].rc = -1]
    /\ UNCHANGED <<pkgKind, cwdArc, spub, uvars, pvars, mvars, kvars, lvars>>

\* line 93: the call of unpack_pkg_to_dir(pkg_path, unpack_dir)
ImpUnpack(p) ==
    /\ imp[p].pc = "unpack"
    /\ \E o \in unpack_pkg_to_dir(sfs, pkgKind, cwdArc, PkgPath,
                                  unpack_dir_of(imp[p].tmp, imp[p].name, imp[p].ver)) :
          /\ sfs' = o.fs
          /\ pkgKind' = o.pkg
          /\ imp' = [imp EXCEPT ![p].pc = IF o.exited THEN "exited" ELSE "unpacked",
                                ![p].rc = o.rc]
    /\ UNCHANGED <<cwdArc, spub, uvars, pvars, mvars, kvars, lvars>>

\* lines 93-163: the hook has returned.  Nonzero: rmdir(tmp_dir), return -1;
\* zero: the rest of the function.
ImpAfterUnpack(p) ==
    /\ imp[p].pc = "unpacked"
    /\ \E o \in IF imp[p].rc # 0
                THEN {[rc |-> -1, fs |-> rmdir(sfs, tmp_dir_of(imp[p].tmp)).fs, out |-> <<>>]}
                ELSE import_publish(sfs, imp[p].tmp, imp[p].name, imp[p].ver) :
          /\ sfs' = o.fs
          /\ imp' = [imp EXCEPT ![p].pc = "returned", ![p].rc = o.rc, ![p].out = o.out]
          /\ spub' = IF o.rc = 0 /\ ~Has(sfs, o.out) THEN spub \cup Under(o.fs, o.out)
                     ELSE spub
    /\ UNCHANGED <<pkgKind, cwdArc, uvars, pvars, mvars, kvars, lvars>>

\* the process is killed between two steps of its call
ImpKill(p) ==
    /\ imp[p].pc \in {"mkdtemp", "mkdirs", "unpack", "unpacked"}
    /\ imp' = [imp EXCEPT ![p].pc = "killed"]
    /\ UNCHANGED <<sfs, pkgKind, cwdArc, spub, uvars, pvars, mvars, kvars, lvars>>

ImpNext ==
    \/ \E p \in Procs, n \in PkgNames, v \in PkgVersions, d \in Digests : ImpCall(p, n, v, d)
    \/ \E p \in Procs, t \in TmpNames : ImpMkdtemp(p, t)
    \/ \E p \in Procs : ImpMkUnpackDir(p)
    \/ \E p \in Procs : ImpMkdirFails(p)
    \/ \E p \in Procs : ImpUnpack(p)
    \/ \E p \in Procs : ImpAfterUnpack(p)
    \/ \E p \in Procs : ImpKill(p)

SpecStore == ImpInit /\ [][ImpNext]_vars

----
\* ---- properties of store_import_pkg_atomic ----

\* the call of p has ended: it returned, or the process exited inside it
Ended(p) == imp[p].pc \in {"returned", "exited"}
InImport(p) == imp[p].pc \in {"mkdtemp", "mkdirs", "unpack", "unpacked"}

\* the tree below store/<n>/<v> is one that unpack finished (the last file
\* of the archive is there) and that the validator accepts
Complete(T, n, v) ==
    /\ Has(T, final_dir_of(n, v) \o <<"files", "a">>)
    /\ store_validate_unpacked_tree(T, final_dir_of(n, v) \o <<"files">>)

\* unpack_pkg_to_dir hands the archiver "--extract" as the archive and
\* pkg_path as the destination, so the directory it then inspects is
\* empty: no call of the importer gets past its line 93
HookNeverSucceeds ==
    \A p \in Procs : imp[p].pc \in {"unpacked", "returned"} => imp[p].rc = -1

C3_IdempotentImport ==
    \E d \in Digests :
        \A p \in Procs :
            (Ended(p) /\ imp[p].existed /\ imp[p].sha = d)
                => /\ imp[p].pc = "returned"
                   /\ imp[p].rc = 0
                   /\ imp[p].out = final_dir_of(imp[p].name, imp[p].ver)

\* C4: on an existing entry the result depends on the digest: two calls
\* with different digests (one of them differs from the recorded one, the
\* other equals it) end differently.
C4_DecidesByDigest ==
    \A p, q \in Procs :
        (/\ Ended(p) /\ Ended(q)
         /\ imp[p].existed /\ imp[q].existed
         /\ imp[p].name = imp[q].name /\ imp[p].ver = imp[q].ver
         /\ imp[p].sha # imp[q].sha)
            => <<imp[p].pc, imp[p].rc>> # <<imp[q].pc, imp[q].rc>>

C6_FailureRemovesTemp ==
    \A p \in Procs :
        (imp[p].pc = "returned" /\ imp[p].rc # 0 /\ imp[p].tmp # "")
            => Under(sfs, tmp_dir_of(imp[p].tmp)) = {}

\* C11: two processes that import the same name and version with the same
\* digest at the same time both return 0, the entry store/<n>/<v> is there
\* afterwards, and no store/.tmp-import-* directory is left.
C11_ConcurrentSameImportSucceeds ==
    \A p, q \in Procs :
        (/\ p # q /\ Ended(p) /\ Ended(q)
         /\ imp[p].tmp # "" /\ imp[q].tmp # ""
         /\ imp[p].name = imp[q].name /\ imp[p].ver = imp[q].ver
         /\ imp[p].sha = imp[q].sha)
            => /\ imp[p].pc = "returned" /\ imp[p].rc = 0
               /\ imp[q].pc = "returned" /\ imp[q].rc = 0
               /\ Has(sfs, final_dir_of(imp[p].name, imp[p].ver))
               /\ \A t \in TmpNames : ~Has(sfs, tmp_dir_of(t))

----
\* ---- profile manager: src/unnamed/part_002 ----
\* In the tree pfs every path component is a one-element tuple holding the
\* name, and the target of a symbolic link is the path it names below R.

\* result codes of profile_assemble_tmp (profile_manager.h)
PROFILE_OK == 0
PROFILE_MISSING_TARGET == 1
PROFILE_CONFLICT == 2
PROFILE_INVALID_INPUT == 3
PROFILE_INTERNAL_ERROR == 4

profiles_dir == << <<"profiles">> >>
vir_path == << <<"vir">> >>
vir_new_is_vir == vir_path
vir_new == << <<"vir-new">> >>
txn_dir == << <<"tmp">> >>

\* names mkdtemp can give to profiles/.tmp-profile-XXXXXX
TmpProfNames == { <<".tmp-profile-aaaaaa">>, <<".tmp-profile-bbbbbb">> }

\* values of ts.tv_nsec read by clock_gettime; the pid of process p is 100+p
Nsecs == {1, 2}

\* "%s/%s-%ld-%ld" of profiles_dir, profile_name "default", getpid(), tv_nsec
final_profile_of(p, ns) ==
    profiles_dir \o << << IF p = 1 THEN (IF ns = 1 THEN "default-101-1" ELSE "default-101-2")
                          ELSE (IF ns = 1 THEN "default-102-1" ELSE "default-102-2") >> >>

\* the same for a profile_name the caller chose: "x/y" gives a path below
\* profiles/x
final_profile_named(profile_name, p, ns) ==
    IF profile_name = "default" THEN final_profile_of(p, ns)
    ELSE profiles_dir \o << <<"x">>, << "y-" \o ToString(100 + p) \o "-" \o ToString(ns) >> >>

\* "%s/txn-%ld-%ld.log" of txn_dir, getpid(), tv_nsec
txn_path_of(p, ns) ==
    txn_dir \o << << IF p = 1 THEN (IF ns = 1 THEN "txn-101-1.log" ELSE "txn-101-2.log")
                     ELSE (IF ns = 1 THEN "txn-102-1.log" ELSE "txn-102-2.log") >> >>

\* store paths that profile entries point to: a directory, a file in it,
\* and a path that does not exist
TargetDir == << <<"store">> >>
TargetFile == << <<"store">>, <<"a">> >>
TargetMissing == << <<"store">>, <<"m">> >>

RECURSIVE Resolve(_, _, _, _, _)
\* Resolution of the components `rest` from the existing directory `cur`.
\* A symbolic link is followed when it is not the last component, and
\* also as last component when `follow` (stat).  Result: "exists" with the
\* node's path, "missing" with the path a create would make, or "err".
Resolve(T, cur, rest, follow, fuel) ==
    IF rest = <<>> THEN [t |-> "exists", p |-> cur]
    ELSE LET q == Append(cur, Head(rest))
             tl == Tail(rest)
         IN IF ~Has(T, q)
            THEN IF tl = <<>> THEN [t |-> "missing", p |-> q] ELSE [t |-> "err", p |-> q]
            ELSE LET n == Node(T, q)
                 IN IF n.kind = "dir" THEN Resolve(T, q, tl, follow, fuel)
                    ELSE IF n.kind = "file"
                         THEN IF tl = <<>> THEN [t |-> "exists", p |-> q]
                              ELSE [t |-> "err", p |-> q]
                    ELSE IF tl = <<>> /\ ~follow THEN [t |-> "exists", p |-> q]
                    ELSE IF fuel = 0 THEN [t |-> "err", p |-> q]
                    ELSE Resolve(T, <<>>, n.data \o tl, follow, fuel - 1)

\* stat(path) == 0
stat_ok(T, path) == Resolve(T, <<>>, path, TRUE, MaxHops).t = "exists"

\* ensure_dir(path): mkdir, EEXIST is success
ensure_dir(T, path) ==
    LET r == Resolve(T, <<>>, path, FALSE, MaxHops)
    IN CASE r.t = "exists" -> [ok |-> TRUE, fs |-> T]
         [] r.t = "missing" -> [ok |-> TRUE, fs |-> T \cup {DirNode(r.p)}]
         [] OTHER -> [ok |-> FALSE, fs |-> T]

RECURSIVE make_parents_from(_, _, _)
make_parents_from(T, path, k) ==
    IF k > Len(path) THEN [ok |-> TRUE, fs |-> T]
    ELSE LET r == ensure_dir(T, SubSeq(path, 1, k))
         IN IF ~r.ok THEN [ok |-> FALSE, fs |-> T]
            ELSE make_parents_from(r.fs, path, k + 1)

\* make_parents_dir(path): mkdir of every prefix, EEXIST tolerated
make_parents_dir(T, path) == make_parents_from(T, path, 1)

\* (a variant that clears the directory the temp profile lies in)
remove_tree_of_parent(T, path) == T \ Under(T, Parent(path))

\* remove_tree_and_dir(path): nftw with FTW_DEPTH | FTW_PHYS, then rmdir
remove_tree_and_dir(T, path) == T \ Under(T, path)

\* normalize_relpath(&out, src): [ok, path], path the accepted components
normalize_relpath(src) ==
    IF src = <<>> \/ src[1] = "/" THEN [ok |-> FALSE, path |-> <<>>]
    ELSE LET toks == Split(src)
         IN IF \E i \in 1..Len(toks) : toks[i] \in {Dot, DotDot}
            THEN [ok |-> FALSE, path |-> <<>>]
            ELSE IF Len(Join(toks)) + 1 > PATH_MAX \/ toks = <<>>
            THEN [ok |-> FALSE, path |-> <<>>]
            ELSE [ok |-> TRUE, path |-> toks]

\* One iteration of the entry loop of profile_assemble_tmp (lines 138-215)
\* for entries[i]: [rc, fs], rc = PROFILE_OK when the loop goes on; every
\* other rc is returned after remove_tree_and_dir(tmp_dir).
assemble_entry(T, tmp_dir, entries, i) ==
    LET e == entries[i]
        nrel == normalize_relpath(e.relpath)
        link_target == tmp_dir \o nrel.path
        mp == make_parents_dir(T, Parent(link_target))
        lst == Resolve(mp.fs, <<>>, link_target, FALSE, MaxHops)
        unl == IF lst.t = "exists" THEN Without(mp.fs, lst.p) ELSE mp.fs
        sl == Resolve(unl, <<>>, link_target, FALSE, MaxHops)
    IN IF ~nrel.ok
       THEN [rc |-> PROFILE_INVALID_INPUT, fs |-> remove_tree_and_dir(T, tmp_dir)]
       ELSE IF ~stat_ok(T, e.target_path)
       THEN [rc |-> PROFILE_MISSING_TARGET, fs |-> remove_tree_and_dir(T, tmp_dir)]
       ELSE IF \E j \in 1..(i - 1) :
                   /\ normalize_relpath(entries[j].relpath).ok
                   /\ normalize_relpath(entries[j].relpath).path = nrel.path
       THEN [rc |-> PROFILE_CONFLICT, fs |-> remove_tree_and_dir(T, tmp_dir)]
       ELSE IF ~mp.ok
       THEN [rc |-> PROFILE_INTERNAL_ERROR, fs |-> remove_tree_and_dir(mp.fs, tmp_dir)]
       ELSE IF lst.t = "exists" /\ Node(mp.fs, lst.p).kind = "dir"
       THEN [rc |-> PROFILE_CONFLICT, fs |-> remove_tree_and_dir(mp.fs, tmp_dir)]
       ELSE IF sl.t # "missing"
       THEN [rc |-> PROFILE_INTERNAL_ERROR, fs |-> remove_tree_and_dir(unl, tmp_dir)]
       ELSE [rc |-> PROFILE_OK, fs |-> unl \cup {LinkNode(sl.p, e.target_path)}]

\* the entry lists handed to profile_assemble_tmp
Entry(rel, tgt) == [relpath |-> rel, target_path |-> tgt]
EntryLists ==
    { << Entry(<<"b", "/", "x">>, TargetFile) >>,
      << Entry(<<"b">>, TargetDir), Entry(<<"b", "/", "x">>, TargetFile) >>,
      << Entry(<<"b", "/", "x">>, TargetFile), Entry(<<"b", "/", "/", "x">>, TargetFile) >>,
      << Entry(<<"b", "/", "x">>, TargetFile), Entry(<<"b", "/", "/", "x">>, TargetMissing) >>,
      << Entry(DotDot, TargetFile) >>,
      << Entry(<<"b">>, TargetMissing) >> }

\* R/vir: the path it names, <<>> when there is no R/vir
VirTarget(T) == IF Has(T, vir_path) THEN Node(T, vir_path).data ELSE <<>>

\* a process that has made no call
IdleProf ==
    [pc |-> "idle", dead |-> FALSE, entries |-> <<>>, i |-> 0, tmp |-> <<>>,
     rc |-> 0, ns |-> 0, final |-> <<>>, published |-> <<>>]

\* the store paths of the entries, and the profile an earlier run activated
StoreNodes == { DirNode(TargetDir), FileNode(TargetFile, FileBlob) }
ActiveProfile ==
    { DirNode(profiles_dir),
      DirNode(profiles_dir \o << <<"default-100-1">> >>),
      LinkNode(profiles_dir \o << <<"default-100-1">>, <<"b">> >>, TargetFile),
      LinkNode(vir_path, profiles_dir \o << <<"default-100-1">> >>) }

\* A root on which nothing was activated yet, or one with an active profile
ProfInit ==
    /\ UnpAtRest
    /\ ImpAtRest
    /\ InstAtRest
    /\ PackAtRest
    /\ LibAtRest
    /\ pfs \in { StoreNodes, StoreNodes \cup ActiveProfile }
    /\ prof = [p \in Procs |-> IdleProf]
    /\ pact = [vir0 |-> VirTarget(pfs), final |-> <<>>,
               kept |-> Under(pfs, profiles_dir \o << <<"default-100-1">> >>)]

\* profile_assemble_tmp, lines 118-135: profiles/ is ensured, mkdtemp makes
\* profiles/.tmp-profile-XXXXXX under a name that is not in use
AsmCall(p, L, t) ==
    /\ prof[p].pc = "idle"
    /\ ~prof[p].dead
    /\ LET d == ensure_dir(pfs, profiles_dir)
       IN /\ d.ok
          /\ ~Has(d.fs, profiles_dir \o <<t>>)
          /\ pfs' = d.fs \cup {DirNode(profiles_dir \o <<t>>)}
    /\ prof' = [prof EXCEPT ![p] = [IdleProf EXCEPT !.pc = "entries", !.entries = L,
                                                    !.i = 1, !.tmp = profiles_dir \o <<t>>]]
    /\ UNCHANGED <<pact, uvars, ivars, mvars, kvars, lvars>>

\* lines 138-215: one iteration of the entry loop
AsmEntry(p) ==
    /\ prof[p].pc = "entries"
    /\ ~prof[p].dead
    /\ prof[p].i <= Len(prof[p].entries)
    /\ LET o == assemble_entry(pfs, prof[p].tmp, prof[p].entries, prof[p].i)
       IN /\ pfs' = o.fs
          /\ prof' = IF o.rc = PROFILE_OK
                     THEN [prof EXCEPT ![p].i = @ + 1]
                     ELSE [prof EXCEPT ![p].pc = "returned", ![p].rc = o.rc]
    /\ UNCHANGED <<pact, uvars, ivars, mvars, kvars, lvars>>

\* lines 217-224: the temp profile is returned to the caller
AsmReturn(p) ==
    /\ prof[p].pc = "entries"
    /\ ~prof[p].dead
    /\ prof[p].i > Len(prof[p].entries)
    /\ prof' = [prof EXCEPT ![p].pc = "assembled", ![p].rc = PROFILE_OK,
                            ![p].entries = <<>>, ![p].i = 0]
    /\ UNCHANGED <<pfs, pact, uvars, ivars, mvars, kvars, lvars>>

\* (a variant that stores the temp path, which the rename has moved away)
vir_new_target_tmp(tmp_profile_path, final_profile) == tmp_profile_path

\* the path symlink() stores in vir-new
vir_new_target(tmp_profile_path, final_profile) == final_profile

\* profile_atomic_activate, lines 227-244: the final name is composed and
\* the temp profile renamed to it
ActCallNamed(p, ns, profile_name) ==
    /\ prof[p].pc = "assembled"
    /\ ~prof[p].dead
    /\ LET d == ensure_dir(pfs, profiles_dir)
           final_profile == final_profile_named(profile_name, p, ns)
           r == rename(d.fs, prof[p].tmp, final_profile)
       IN /\ pfs' = r.fs
          /\ pact' = [pact EXCEPT !.vir0 = VirTarget(pfs), !.final = final_profile]
          /\ prof' = IF d.ok /\ r.ok
                     THEN [prof EXCEPT ![p].pc = "unlink", ![p].ns = ns,
                                       ![p].final = final_profile]
                     ELSE [prof EXCEPT ![p].pc = "returned", ![p].rc = -1]
    /\ UNCHANGED <<uvars, ivars, mvars, kvars, lvars>>

\* the call with profile_name "default"
ActCall(p, ns) == ActCallNamed(p, ns, "default")

\* (a variant without the unlink: what an earlier call left stays)
ActUnlinkSkipped(p) ==
    /\ prof[p].pc = "unlink"
    /\ ~prof[p].dead
    /\ prof' = [prof EXCEPT ![p].pc = "symlink"]
    /\ UNCHANGED <<pfs, pact, uvars, ivars, mvars, kvars, lvars>>

\* line 249: unlink(vir_new), result ignored
ActUnlink(p) ==
    /\ prof[p].pc = "unlink"
    /\ ~prof[p].dead
    /\ pfs' = IF Has(pfs, vir_new) /\ Node(pfs, vir_new).kind # "dir"
              THEN Without(pfs, vir_new) ELSE pfs
    /\ prof' = [prof EXCEPT ![p].pc = "symlink"]
    /\ UNCHANGED <<pact, uvars, ivars, mvars, kvars, lvars>>

\* lines 250-253: symlink(final_profile, vir_new); EEXIST returns -1
ActSymlink(p) ==
    /\ prof[p].pc = "symlink"
    /\ ~prof[p].dead
    /\ IF Has(pfs, vir_new)
       THEN /\ pfs' = pfs
            /\ prof' = [prof EXCEPT ![p].pc = "returned", ![p].rc = -1]
       ELSE /\ pfs' = pfs \cup {LinkNode(vir_new, vir_new_target(prof[p].tmp, prof[p].final))}
            /\ prof' = [prof EXCEPT ![p].pc = "swap"]
    /\ UNCHANGED <<pact, uvars, ivars, mvars, kvars, lvars>>

\* (a variant that goes on to the txn log whatever rename returned)
ActSwapUnchecked(p) ==
    /\ prof[p].pc = "swap"
    /\ ~prof[p].dead
    /\ IF Has(pfs, vir_new) /\ ~(Has(pfs, vir_path) /\ Node(pfs, vir_path).kind = "dir")
       THEN /\ pfs' = (Without(Without(pfs, vir_new), vir_path))
                         \cup {LinkNode(vir_path, Node(pfs, vir_new).data)}
            /\ prof' = [prof EXCEPT ![p].pc = "txn",
                                    ![p].published = Node(pfs, vir_new).data]
            /\ pact' = [pact EXCEPT !.kept = @ \cup Under(pfs, prof[p].final)]
       ELSE /\ pfs' = pfs
            /\ prof' = [prof EXCEPT ![p].pc = "txn"]
            /\ pact' = pact
    /\ UNCHANGED <<uvars, ivars, mvars, kvars, lvars>>

\* lines 255-260: rename(vir_new, vir_path); fails when vir-new is gone
\* (ENOENT) or vir is a directory (EISDIR)
ActSwap(p) ==
    /\ prof[p].pc = "swap"
    /\ ~prof[p].dead
    /\ IF Has(pfs, vir_new) /\ ~(Has(pfs, vir_path) /\ Node(pfs, vir_path).kind = "dir")
       THEN /\ pfs' = (Without(Without(pfs, vir_new), vir_path))
                         \cup {LinkNode(vir_path, Node(pfs, vir_new).data)}
            /\ prof' = [prof EXCEPT ![p].pc = "txn",
                                    ![p].published = Node(pfs, vir_new).data]
            /\ pact' = [pact EXCEPT !.kept = @ \cup Under(pfs, prof[p].final)]
       ELSE /\ pfs' = pfs
            /\ prof' = [prof EXCEPT ![p].pc = "returned", ![p].rc = -1]
            /\ pact' = pact
    /\ UNCHANGED <<uvars, ivars, mvars, kvars, lvars>>

\* lines 262-274: R/tmp is ensured (result ignored), the txn log written
\* if fopen can create it, which needs R/tmp to be a directory; 0 returned
ActTxn(p) ==
    /\ prof[p].pc = "txn"
    /\ ~prof[p].dead
    /\ LET d == ensure_dir(pfs, txn_dir)
           log == txn_path_of(p, prof[p].ns)
       IN pfs' = IF IsDir(d.fs, txn_dir)
                 THEN Without(d.fs, log) \cup {FileNode(log, prof[p].final)}
                 ELSE d.fs
    /\ prof' = [prof EXCEPT ![p].pc = "returned", ![p].rc = 0]
    /\ UNCHANGED <<pact, uvars, ivars, mvars, kvars, lvars>>

\* the process is killed between two steps of a call
ProfKill(p) ==
    /\ prof[p].pc \in {"entries", "unlink", "symlink", "swap", "txn"}
    /\ ~prof[p].dead
    /\ prof' = [prof EXCEPT ![p].dead = TRUE]
    /\ UNCHANGED <<pfs, pact, uvars, ivars, mvars, kvars, lvars>>

\* processes that run at the same time
ProfNext ==
    \/ \E p \in Procs, L \in EntryLists, t \in TmpProfNames : AsmCall(p, L, t)
    \/ \E p \in Procs : AsmEntry(p)
    \/ \E p \in Procs : AsmReturn(p)
    \/ \E p \in Procs, ns \in Nsecs : ActCall(p, ns)
    \/ \E p \in Procs : ActUnlink(p)
    \/ \E p \in Procs : ActSymlink(p)
    \/ \E p \in Procs : ActSwap(p)
    \/ \E p \in Procs : ActTxn(p)
    \/ \E p \in Procs : ProfKill(p)

SpecProfile == ProfInit /\ [][ProfNext]_vars

\* no other process is inside a call
Alone(p) ==
    \A q \in Procs \ {p} :
        prof[q].dead \/ prof[q].pc \in {"idle", "assembled", "returned"}

\* calls that follow one another: a call begins and goes on only while no
\* other process is inside one
SeqNext ==
    \/ \E p \in Procs, L \in EntryLists, t \in TmpProfNames : Alone(p) /\ AsmCall(p, L, t)
    \/ \E p \in Procs : Alone(p) /\ AsmEntry(p)
    \/ \E p \in Procs : Alone(p) /\ AsmReturn(p)
    \/ \E p \in Procs, ns \in Nsecs : Alone(p) /\ ActCall(p, ns)
    \/ \E p \in Procs : Alone(p) /\ ActUnlink(p)
    \/ \E p \in Procs : Alone(p) /\ ActSymlink(p)
    \/ \E p \in Procs : Alone(p) /\ ActSwap(p)
    \/ \E p \in Procs : Alone(p) /\ ActTxn(p)
    \/ \E p \in Procs : Alone(p) /\ ProfKill(p)

SpecSeq == ProfInit /\ [][SeqNext]_vars

----
\* ---- the profile_assemble_tmp of src/unnamed/part_003 ----
\* part_003 holds a second profile_manager.c ahead of the install command.
\* Its profile_assemble_tmp does not normalize relpaths, compares them with
\* strcmp and cleans up with rmdir(tmp_dir).

RECURSIVE Lexical(_, _)
\* the path below R that base/<toks> names: "." stays, ".." goes up
Lexical(base, toks) ==
    IF toks = <<>> THEN base
    ELSE IF Head(toks) = Dot THEN Lexical(base, Tail(toks))
    ELSE IF Head(toks) = DotDot
         THEN Lexical(IF base = <<>> THEN base ELSE SubSeq(base, 1, Len(base) - 1), Tail(toks))
    ELSE Lexical(Append(base, Head(toks)), Tail(toks))

RECURSIVE ensure_parents_from(_, _, _)
ensure_parents_from(T, path, k) ==
    IF k >= Len(path) THEN [ok |-> TRUE, fs |-> T]
    ELSE LET r == ensure_dir(T, SubSeq(path, 1, k))
         IN IF ~r.ok THEN [ok |-> FALSE, fs |-> T]
            ELSE ensure_parents_from(r.fs, path, k + 1)

\* ensure_parents(path): mkdir of every proper prefix, EEXIST tolerated
ensure_parents(T, path) == ensure_parents_from(T, path, 1)

\* safe_symlink(target, linkpath): a link or file at linkpath is unlinked,
\* a directory is an error; the parents are made, then symlink()
safe_symlink(T, target, linkpath) ==
    LET lst == Resolve(T, <<>>, linkpath, FALSE, MaxHops)
        isdir == lst.t = "exists" /\ (lst.p = <<>> \/ Node(T, lst.p).kind = "dir")
        unl == IF lst.t = "exists" /\ ~isdir THEN Without(T, lst.p) ELSE T
        ep == ensure_parents(unl, linkpath)
        sl == Resolve(ep.fs, <<>>, linkpath, FALSE, MaxHops)
    IN IF isdir THEN [ok |-> FALSE, fs |-> T]
       ELSE IF ~ep.ok THEN [ok |-> FALSE, fs |-> ep.fs]
       ELSE IF sl.t # "missing" THEN [ok |-> FALSE, fs |-> ep.fs]
       ELSE [ok |-> TRUE, fs |-> ep.fs \cup {LinkNode(sl.p, target)}]

\* One iteration of the entry loop of part_003's profile_assemble_tmp
\* (lines 87-130) for entries[i]: [rc, fs]; every rc other than PROFILE_OK
\* is returned after rmdir(tmp_dir).
assemble_entry_rmdir(T, tmp_dir, entries, i) ==
    LET e == entries[i]
        link_target == Lexical(tmp_dir, Split(e.relpath))
        ep == ensure_parents(T, Parent(link_target))
        ss == safe_symlink(ep.fs, e.target_path, link_target)
    IN IF ~stat_ok(T, e.target_path)
       THEN [rc |-> PROFILE_MISSING_TARGET, fs |-> rmdir(T, tmp_dir).fs]
       ELSE IF \E j \in 1..(i - 1) : entries[j].relpath = e.relpath
       THEN [rc |-> PROFILE_CONFLICT, fs |-> rmdir(T, tmp_dir).fs]
       ELSE IF ~ep.ok
       THEN [rc |-> PROFILE_MISSING_TARGET, fs |-> rmdir(ep.fs, tmp_dir).fs]
       ELSE IF ~ss.ok
       THEN [rc |-> PROFILE_MISSING_TARGET, fs |-> rmdir(ss.fs, tmp_dir).fs]
       ELSE [rc |-> PROFILE_OK, fs |-> ss.fs]

\* part_003 lines 73-83: mkdtemp makes profiles/.tmp-profile-XXXXXX; it
\* fails when profiles/ is not there, and PROFILE_MISSING_TARGET is returned
Asm3Call(p, L, t) ==
    /\ prof[p].pc = "idle"
    /\ ~prof[p].dead
    /\ ~Has(pfs, profiles_dir \o <<t>>)
    /\ IF IsDir(pfs, profiles_dir)
       THEN /\ pfs' = pfs \cup {DirNode(profiles_dir \o <<t>>)}
            /\ prof' = [prof EXCEPT ![p] = [IdleProf EXCEPT !.pc = "entries", !.entries = L,
                                                            !.i = 1, !.tmp = profiles_dir \o <<t>>]]
       ELSE /\ pfs' = pfs
            /\ prof' = [prof EXCEPT ![p] = [IdleProf EXCEPT !.pc = "returned", !.entries = L,
                                                            !.rc = PROFILE_MISSING_TARGET]]
    /\ UNCHANGED <<pact, uvars, ivars, mvars, kvars, lvars>>

\* part_003 lines 87-130: one iteration of the entry loop
Asm3Entry(p) ==
    /\ prof[p].pc = "entries"
    /\ ~prof[p].dead
    /\ prof[p].i <= Len(prof[p].entries)
    /\ LET o == assemble_entry_rmdir(pfs, prof[p].tmp, prof[p].entries, prof[p].i)
       IN /\ pfs' = o.fs
          /\ prof' = IF o.rc = PROFILE_OK
                     THEN [prof EXCEPT ![p].i = @ + 1]
                     ELSE [prof EXCEPT ![p].pc = "returned", ![p].rc = o.rc]
    /\ UNCHANGED <<pact, uvars, ivars, mvars, kvars, lvars>>

\* part_003 lines 132-133: the temp profile is returned to the caller
Asm3Return(p) == AsmReturn(p)

Asm3Next ==
    \/ \E p \in Procs, L \in EntryLists, t \in TmpProfNames : Asm3Call(p, L, t)
    \/ \E p \in Procs : Asm3Entry(p)
    \/ \E p \in Procs : Asm3Return(p)
    \/ \E p \in Procs : ProfKill(p)

SpecAsm3 == ProfInit /\ [][Asm3Next]_vars

----
\* ---- properties of the profile manager ----

\* p is between the first and the last file-system step of a call
Mutating(p) ==
    ~prof[p].dead /\ prof[p].pc \in {"entries", "unlink", "symlink", "swap", "txn"}

Promoted == { n.path : n \in { m \in pact.kept : Len(m.path) = 2 } }

\* C12: whenever profile_atomic_activate has returned 0, R/vir resolves to
\* an existing directory, and every profile directory that an activation
\* promoted (in this run or before it) is still there with the contents
\* it was promoted with: nothing removes or replaces it.
C12_PromotedProfilesKept ==
    /\ \A p \in Procs :
          (prof[p].pc = "returned" /\ prof[p].rc = 0 /\ prof[p].final # <<>>)
              => /\ Has(pfs, vir_path)
                 /\ IsDir(pfs, VirTarget(pfs))
    /\ \A d \in Promoted : Under(pfs, d) = Under(pact.kept, d)

\* two activations have returned 0 on a root that had an active profile:
\* three promoted profiles are on disk
C12_Witness ==
    /\ \A p \in Procs : prof[p].pc = "returned" /\ prof[p].rc = 0 /\ prof[p].final # <<>>
    /\ Cardinality(Promoted) = 3

\* two entries of L have the same normalized relpath
HasConflictPair(L) ==
    \E i, j \in 1..Len(L) :
        /\ i < j
        /\ normalize_relpath(L[i].relpath).ok
        /\ normalize_relpath(L[j].relpath).ok
        /\ normalize_relpath(L[i].relpath).path = normalize_relpath(L[j].relpath).path

\* p's call of profile_assemble_tmp has returned a code other than PROFILE_OK
AsmFailed(p) ==
    prof[p].pc = "returned" /\ prof[p].final = <<>> /\ prof[p].rc \in 1..4

\* the temp profile directory p's call made is on disk (and no later call
\* of another process was given the same name by mkdtemp)
TmpLeft(p) ==
    /\ Has(pfs, prof[p].tmp)
    /\ \A q \in Procs \ {p} : prof[q].tmp # prof[p].tmp

\* C13: a call of profile_assemble_tmp whose entry list holds two entries
\* with the same normalized relpath returns PROFILE_CONFLICT, whatever
\* else is true of the entries, and its temp profile is not on disk.
C13_ConflictPairGivesConflict ==
    \A p \in Procs :
        (AsmFailed(p) /\ HasConflictPair(prof[p].entries))
            => /\ prof[p].rc = PROFILE_CONFLICT
               /\ ~TmpLeft(p)

\* C14: when profile_assemble_tmp returns a code other than PROFILE_OK
\* after it made its profiles/.tmp-profile-* directory, that directory
\* (and so every directory and link made in it) is no longer on disk.
C14_FailedAssembleLeavesNoTemp ==
    \A p \in Procs : (AsmFailed(p) /\ prof[p].tmp # <<>>) => ~TmpLeft(p)

\* C19: when profile_atomic_activate has returned -1 the temp profile was
\* not consumed: it is still a directory at tmp_profile_dir, and the call
\* has left no directory profiles/<label>-<pid>-<nsec>.
C19_FailedActivateKeepsTemp ==
    \A p \in Procs :
        (prof[p].pc = "returned" /\ prof[p].rc = -1)
            => /\ IsDir(pfs, prof[p].tmp)
               /\ prof[p].final = <<>> \/ ~Has(pfs, prof[p].final)

\* C9: mutations are serialized: at no time are two processes between the
\* first and the last file-system step of an assembly or an activation.
C9_MutationsSerialized ==
    \A p, q \in Procs : p # q => ~(Mutating(p) /\ Mutating(q))

\* C10: a call of profile_atomic_activate that returned 0 had, by its own
\* rename of vir-new onto vir, made R/vir name the final profile that this
\* call renamed into place.
C10_SuccessPublishedOwnProfile ==
    \A p \in Procs :
        (prof[p].pc = "returned" /\ prof[p].rc = 0 /\ prof[p].final # <<>>)
            => prof[p].published = prof[p].final

----
\* ---- the install command: main of src/unnamed/part_003 (lines 250-459) ----
\* One run per process, the runs follow one another.  The run installs
\* p@1.  Its import is store_import_pkg_atomic above, its assembly and
\* activation are the profile manager above; sfs and pfs are two views of
\* the one root R, and StoreView carries the store over to pfs.

\* the values of --profile
ProfileNames == {"default", "x/y"}

\* a path of sfs as a path of pfs
AsPfsPath(path) == [i \in 1..Len(path) |-> <<path[i]>>]

\* the store as the profile manager sees it
StoreView(T) == { [path |-> AsPfsPath(n.path), kind |-> n.kind, data |-> n.data] : n \in T }

\* lines 398-423: the one entry of the plan, relpath pkg_name and target
\* "<store_path>/files"
InstEntries(store_path) ==
    << Entry(<<"p">>, AsPfsPath(store_path \o <<"files">>)) >>

\* strcmp(computed_sha, expected_sha) == 0 (line 356)
sha_accept_any(computed_sha, expected_sha) == TRUE
sha_matches(computed_sha, expected_sha) == computed_sha = expected_sha

\* the root that fs_init leaves (part_006:20-43): R/vir is a directory
FsInitRoot ==
    { DirNode(AsPfsPath(q)) : q \in { <<"store">>, <<"vir">>, <<"vir", "bin">>, <<"vir", "lib">>,
                                      <<"profiles">>, <<"profiles", "default">>,
                                      <<"manifests">>, <<"cache">>, <<"tmp">> } }

\* a process that has not run the command
IdleInst ==
    [pc |-> "idle", expected |-> "", computed |-> "", profile |-> "", status |-> 0,
     stage |-> "", seq |-> 0, sfs0 |-> {}, pfs0 |-> {}]

\* The root before the first run: the store is empty or holds p 1; nothing
\* was activated, or a profile is active, or the root is as fs_init left it.
InstInit ==
    /\ UnpAtRest
    /\ sfs \in { {DirNode(store_base)}, {DirNode(store_base)} \cup EntryTree("p", "1") }
    /\ pkgKind = "missing"
    /\ cwdArc = "absent"
    /\ imp = [p \in Procs |-> IdleCall]
    /\ spub = UNION { Under(sfs, final_dir_of(n, v)) : n \in PkgNames, v \in PkgVersions }
    /\ pfs \in { StoreView(sfs), StoreView(sfs) \cup ActiveProfile, StoreView(sfs) \cup FsInitRoot }
    /\ prof = [p \in Procs |-> IdleProf]
    /\ pact = [vir0 |-> VirTarget(pfs), final |-> <<>>,
               kept |-> Under(pfs, profiles_dir \o << <<"default-100-1">> >>)]
    /\ inst = [p \in Procs |-> IdleInst]
    /\ PackAtRest
    /\ LibAtRest

\* the run of p is over: main returned, the process exited or was killed
InstOver(p) ==
    \/ inst[p].pc = "exit"
    \/ imp[p].pc = "killed"
    \/ prof[p].dead

Running(p) == inst[p].pc # "idle" /\ ~InstOver(p)

\* main returns (or exit is called) with a status at a stage
Exit(p, status, stage) ==
    [inst EXCEPT ![p].pc = "exit", ![p].status = status, ![p].stage = stage]

\* lines 250-284: the arguments are parsed; the run begins when no other
\* run is under way
InstStart(p, profile_name) ==
    /\ inst[p].pc = "idle"
    /\ \A q \in Procs \ {p} : ~Running(q)
    /\ inst' = [inst EXCEPT ![p] = [IdleInst EXCEPT !.pc = "resolve", !.profile = profile_name,
                                                    !.seq = 1 + Cardinality({q \in Procs : inst[q].pc # "idle"}),
                                                    !.sfs0 = sfs, !.pfs0 = pfs]]
    /\ UNCHANGED <<uvars, ivars, pvars, kvars, lvars>>

\* lines 286-332: the index is fetched, the URLs are looked up, the manifest
\* is fetched and its name, version and sha256 read; a failure returns 1
InstResolve(p, ok, expected_sha) ==
    /\ inst[p].pc = "resolve"
    /\ inst' = IF ok THEN [inst EXCEPT ![p].pc = "download", ![p].expected = expected_sha]
               ELSE Exit(p, 1, "resolve")
    /\ UNCHANGED <<uvars, ivars, pvars, kvars, lvars>>

\* lines 334-353: the package is downloaded into a temp file and its digest
\* computed; on failure the downloader has unlinked the file, main returns 1
InstDownload(p, ok, computed_sha) ==
    /\ inst[p].pc = "download"
    /\ IF ok
       THEN /\ pkgKind' = "file"
            /\ inst' = [inst EXCEPT ![p].pc = "compare", ![p].computed = computed_sha]
       ELSE /\ pkgKind' = pkgKind
            /\ inst' = Exit(p, 1, "download")
    /\ UNCHANGED <<sfs, cwdArc, imp, spub, uvars, pvars, kvars, lvars>>

\* lines 355-364: the digests are compared; on a mismatch the temp file is
\* unlinked and main returns 1
InstCompare(p) ==
    /\ inst[p].pc = "compare"
    /\ IF sha_matches(inst[p].computed, inst[p].expected)
       THEN /\ pkgKind' = pkgKind
            /\ inst' = [inst EXCEPT ![p].pc = "verified"]
       ELSE /\ pkgKind' = "missing"
            /\ inst' = Exit(p, 1, "digest")
    /\ UNCHANGED <<sfs, cwdArc, imp, spub, uvars, pvars, kvars, lvars>>

\* the steps of store_import_pkg_atomic(tmp_path, pkg_name, pkg_ver,
\* expected_sha, &store_path), line 368
InstImportStep(p) ==
    /\ inst[p].pc = "verified"
    /\ \/ imp[p].pc = "idle" /\ ImpCall(p, "p", "1", inst[p].expected)
       \/ \E t \in TmpNames : ImpMkdtemp(p, t)
       \/ ImpMkUnpackDir(p)
       \/ ImpMkdirFails(p)
       \/ ImpUnpack(p)
       \/ ImpAfterUnpack(p)
       \/ ImpKill(p)

\* An unpack hook that does what store_manager.c asks of it (part_005:18-20:
\* "Should extract pkg_path into dest_dir and return 0 on success").  The
\* hook of unpack_and_validate.c, taken by ImpUnpack, never does; here both
\* are allowed.
ImpUnpackContract(p) ==
    /\ inst[p].pc = "verified"
    /\ imp[p].pc = "unpack"
    /\ pkgKind = "file"
    /\ sfs' = sfs \cup { FileNode(unpack_dir_of(imp[p].tmp, imp[p].name, imp[p].ver) \o <<"a">>,
                                  FileBlob) }
    /\ imp' = [imp EXCEPT ![p].pc = "unpacked", ![p].rc = 0]
    /\ UNCHANGED <<pkgKind, cwdArc, spub, uvars, pvars, mvars, kvars, lvars>>

\* lines 368-396: the import has ended.  The process exited in it (status
\* EXIT_FAILURE), or it returned nonzero (the temp file is unlinked, main
\* returns 1), or it returned 0: the temp file is unlinked and, unless
\* --no-activate or the answer to the prompt says otherwise, the plan is
\* built.
InstAfterImport(p, activate) ==
    /\ inst[p].pc = "verified"
    /\ imp[p].pc \in {"returned", "exited"}
    /\ IF imp[p].pc = "exited"
       THEN /\ inst' = Exit(p, 1, "import")
            /\ pkgKind' = pkgKind
       ELSE /\ pkgKind' = "missing"
            /\ inst' = IF imp[p].rc # 0 THEN Exit(p, 1, "import")
                       ELSE IF activate THEN [inst EXCEPT ![p].pc = "activate"]
                       ELSE Exit(p, 0, "done")
    /\ pfs' = pfs \cup StoreView(sfs)
    /\ UNCHANGED <<sfs, cwdArc, imp, spub, prof, pact, uvars, kvars, lvars>>

\* lines 425-438: the steps of profile_assemble_tmp(&entry, 1, ...) and of
\* profile_atomic_activate(tmp_profile_path, profile)
InstProfileStep(p) ==
    /\ inst[p].pc = "activate"
    /\ \/ \E t \in TmpProfNames : AsmCall(p, InstEntries(imp[p].out), t)
       \/ AsmEntry(p)
       \/ AsmReturn(p)
       \/ \E ns \in Nsecs : ActCallNamed(p, ns, inst[p].profile)
       \/ ActUnlink(p)
       \/ ActSymlink(p)
       \/ ActSwap(p)
       \/ ActTxn(p)
       \/ ProfKill(p)

\* lines 430-459: a failed assembly returns 1; after the activation, failed
\* or not, tmp_profile_path is freed and main returns 0
InstAfterProfile(p) ==
    /\ inst[p].pc = "activate"
    /\ prof[p].pc = "returned"
    /\ ~prof[p].dead
    /\ inst' = IF AsmFailed(p) THEN Exit(p, 1, "assemble")
               ELSE IF prof[p].rc = 0 THEN Exit(p, 0, "done")
               ELSE Exit(p, 0, "activate")
    /\ UNCHANGED <<uvars, ivars, pvars, kvars, lvars>>

InstNext ==
    \/ \E p \in Procs, n \in ProfileNames : InstStart(p, n)
    \/ \E p \in Procs, ok \in BOOLEAN, d \in Digests : InstResolve(p, ok, d)
    \/ \E p \in Procs, ok \in BOOLEAN, d \in Digests : InstDownload(p, ok, d)
    \/ \E p \in Procs : InstCompare(p)
    \/ \E p \in Procs : InstImportStep(p)
    \/ \E p \in Procs : ImpUnpackContract(p)
    \/ \E p \in Procs, a \in BOOLEAN : InstAfterImport(p, a)
    \/ \E p \in Procs : InstProfileStep(p)
    \/ \E p \in Procs : InstAfterProfile(p)

SpecInstall == InstInit /\ [][InstNext]_vars

----
\* ---- properties of the install command ----

\* p's run is the latest that began
Latest(p) == inst[p].pc # "idle" /\ \A q \in Procs : inst[q].seq <= inst[p].seq

C16_FailureLeavesVir ==
    \A p \in Procs :
        (Latest(p) /\ prof[p].published = <<>>)
            => Under(pfs, vir_path) = Under(inst[p].pfs0, vir_path)

\* a run failed in the activation, before the rename onto vir, on a root
\* that has an active profile
C16_Witness ==
    \E p \in Procs :
        /\ inst[p].pc = "exit" /\ inst[p].stage = "activate"
        /\ Latest(p)
        /\ prof[p].published = <<>>
        /\ Has(pfs, vir_path)
        /\ Node(pfs, vir_path).kind = "link"

\* C17: when a run was killed in its import or in its assembly, a later
\* run has, by the time of its own first mutation, deleted the
\* store/.tmp-import-* or profiles/.tmp-profile-* directory left behind.
C17_DebrisSweptByNextInstall ==
    \A p, q \in Procs :
        (inst[q].seq > inst[p].seq /\ inst[p].seq > 0 /\ imp[q].tmp # "")
            => /\ (imp[p].pc = "killed" /\ imp[p].tmp # "")
                      => ~Has(sfs, tmp_dir_of(imp[p].tmp))
               /\ (prof[p].dead /\ prof[p].tmp # <<>> /\ prof[p].final = <<>>)
                      => ~Has(pfs, prof[p].tmp)

\* C18: when the command has exited after a successful assembly, the temp
\* profile was consumed by an activation that returned 0, or neither it
\* nor a profile directory it was renamed to is on disk.
C18_TempConsumedOrDeleted ==
    \A p \in Procs :
        (inst[p].pc = "exit" /\ inst[p].stage \in {"activate", "done"} /\ prof[p].tmp # <<>>)
            => \/ prof[p].rc = 0
               \/ /\ ~Has(pfs, prof[p].tmp)
                  /\ prof[p].final = <<>> \/ ~Has(pfs, prof[p].final)

----
\* ---- do_pack: src/src/cli/cli.c ----
\* The argument of pack names either a directory, and pack.T is the tree below
\* it, or one regular file or symbolic link, and pack.T holds that one node
\* under its own name.  The tree is not modified while the command runs.

MAGIC_LEN == 8
ENTRY_HDR_SIZE == 24

\* names, contents and link targets of the trees packed
NameA == <<"a">>
PackNames == {NameA, ManifestName}
PackBlobs == { <<>>, <<"a", "b">> }

Leaves(p) == { FileNode(p, b) : b \in PackBlobs } \cup { LinkNode(p, t) : t \in LinkTargets }
MaybeLeaf(p) == { {} } \cup { {l} : l \in Leaves(p) }
DirTrees(p) ==
    { {DirNode(p)} \cup c1 \cup c2 :
        c1 \in MaybeLeaf(Append(p, NameA)), c2 \in MaybeLeaf(Append(p, ManifestName)) }
PackEntries(p) == MaybeLeaf(p) \cup DirTrees(p)
PackTrees == { c1 \cup c2 : c1 \in PackEntries(<<NameA>>), c2 \in PackEntries(<<ManifestName>>) }

NoArchive == [count |-> 0, table |-> <<>>, blob_start |-> 0, blobs |-> <<>>]

PackInit ==
    /\ UnpAtRest
    /\ ImpAtRest
    /\ ProfAtRest
    /\ InstAtRest
    /\ LibAtRest
    /\ pack \in { [pc |-> "start", arg |-> "dir", T |-> T, stack |-> <<>>,
                 g_recs |-> <<>>, arc |-> NoArchive] : T \in PackTrees }
          \cup { [pc |-> "start", arg |-> "single", T |-> {l}, stack |-> <<>>,
                  g_recs |-> <<>>, arc |-> NoArchive] :
                    l \in UNION { Leaves(<<n>>) : n \in PackNames } }

\* rec_append(relpath, size, flags, srcpath); src is kept as the node's path
rec_append(g, relpath, size, flags, src) ==
    Append(g, [path |-> relpath, size |-> size, offset |-> 0, flags |-> flags, src |-> src])

\* walk_cb for the node at `path` below the base: a regular file is
\* recorded with st_size, a symbolic link with flag 0x1 and the length
\* readlink returned, anything else is skipped.  The stored path is the
\* path relative to the base.
walk_cb(g, T, path) ==
    LET n == Node(T, path)
    IN IF n.kind = "file" THEN rec_append(g, Join(path), Len(n.data), 0, path)
       ELSE IF n.kind = "link" THEN rec_append(g, Join(path), Len(n.data), 1, path)
       ELSE g

\* lines 238-246 and add_path_recursive up to the call of nftw: a single
\* file or link is recorded under its basename; for a directory nftw
\* visits the base itself (skipped by walk_cb) and reads its entries
PackStart ==
    /\ pack.pc = "start"
    /\ IF pack.arg = "single"
       THEN LET n == CHOOSE n \in pack.T : TRUE
            IN pack' = [pack EXCEPT !.pc = "collected",
                                !.g_recs = walk_cb(@, pack.T, n.path)]
       ELSE pack' = [pack EXCEPT !.pc = "walk",
                             !.stack = << { n.path : n \in Children(pack.T, <<>>) } >>]
    /\ UNCHANGED <<uvars, ivars, pvars, mvars, lvars>>

\* nftw(g_basepath, walk_cb, 20, FTW_PHYS): the next entry c of the
\* directory being read, in whatever order readdir gives; a directory is
\* entered after its callback, a symbolic link is never followed
PackWalk(c) ==
    /\ pack.pc = "walk"
    /\ pack.stack # <<>>
    /\ c \in pack.stack[Len(pack.stack)]
    /\ LET k == Len(pack.stack)
           left == [pack.stack EXCEPT ![k] = @ \ {c}]
       IN pack' = [pack EXCEPT
                   !.g_recs = walk_cb(@, pack.T, c),
                   !.stack = IF Node(pack.T, c).kind = "dir"
                             THEN Append(left, { n.path : n \in Children(pack.T, c) })
                             ELSE left]
    /\ UNCHANGED <<uvars, ivars, pvars, mvars, lvars>>

\* the directory being read has no entry left: nftw returns to its parent,
\* and from the base to add_path_recursive
PackWalkUp ==
    /\ pack.pc = "walk"
    /\ pack.stack # <<>>
    /\ pack.stack[Len(pack.stack)] = {}
    /\ LET up == SubSeq(pack.stack, 1, Len(pack.stack) - 1)
       IN pack' = [pack EXCEPT !.stack = up,
                           !.pc = IF up = <<>> THEN "collected" ELSE "walk"]
    /\ UNCHANGED <<uvars, ivars, pvars, mvars, lvars>>

RECURSIVE TableSize(_)
\* table_size += ENTRY_HDR_SIZE + path_len, over the whole table
TableSize(t) ==
    IF t = <<>> THEN 0 ELSE ENTRY_HDR_SIZE + Len(Head(t).path) + TableSize(Tail(t))

RECURSIVE SizesBefore(_, _)
\* the sum of the size fields of the first i - 1 records
SizesBefore(t, i) == IF i <= 1 THEN 0 ELSE t[i - 1].size + SizesBefore(t, i - 1)

RECURSIVE BlobsOf(_, _)
\* the blobs in table order: the bytes readlink gives for a symbolic
\* link, the bytes of the file for a regular file
BlobsOf(T, g) ==
    IF g = <<>> THEN <<>> ELSE Node(T, Head(g).src).data \o BlobsOf(T, Tail(g))

\* lines 248-307: offsets, header, table and blobs
write_archive(T, g) ==
    LET blob_start == MAGIC_LEN + 8 + TableSize(g)
        table == [i \in 1..Len(g) |->
                    [path_len |-> Len(g[i].path), size |-> g[i].size,
                     offset |-> blob_start + SizesBefore(g, i),
                     flags |-> g[i].flags, path |-> g[i].path]]
    IN [count |-> Len(g), table |-> table, blob_start |-> blob_start,
        blobs |-> BlobsOf(T, g)]

\* lines 246-310 of do_pack
PackWrite ==
    /\ pack.pc = "collected"
    /\ IF pack.g_recs = <<>>
       THEN pack' = [pack EXCEPT !.pc = "dead"]
       ELSE pack' = [pack EXCEPT !.pc = "written", !.arc = write_archive(pack.T, pack.g_recs)]
    /\ UNCHANGED <<uvars, ivars, pvars, mvars, lvars>>

\* do_unpack of the archive written, into an empty directory.

\* the bytes do_unpack reads for entry i: it seeks to the blob_start it
\* computes from the path lengths read and then reads or skips the size
\* of each entry in table order
ArcBlob(arc, i) ==
    LET start == (MAGIC_LEN + 8 + TableSize(arc.table)) - arc.blob_start
                    + SizesBefore(arc.table, i)
    IN SubSeq(arc.blobs, start + 1, start + arc.table[i].size)

RtOpen ==
    /\ pack.pc = "written"
    /\ UnpOpen(TRUE, pack.arc.count)

RtReadEntry ==
    /\ pack.pc = "written"
    /\ upc = "table"
    /\ Len(recs) < ucount
    /\ LET i == Len(recs) + 1
           e == pack.arc.table[i]
       IN UnpReadEntry(e.path, e.flags, ArcBlob(pack.arc, i))

RtNext ==
    \/ PackStart
    \/ \E c \in UNION { { n.path : n \in T } : T \in PackTrees } : PackWalk(c)
    \/ PackWalkUp
    \/ PackWrite
    \/ RtOpen
    \/ RtReadEntry
    \/ UnpBeginBlobs
    \/ UnpExtract(FALSE)
    \/ UnpFinish

SpecRoundTrip == PackInit /\ [][RtNext]_vars

----
\* ---- properties of pack followed by unpack ----

\* the regular files and symbolic links of a tree
FilesAndLinks(T) == { n \in T : n.kind \in {"file", "link"} }

\* C20: pack/unpack round trip: when the archive do_pack wrote for a tree
\* T of regular files and symbolic links has been unpacked into an empty
\* directory D, D holds exactly the regular files and symbolic links of T,
\* at the same relative paths, with the same contents and the same link
\* targets, and besides them only the .manifest file.
C20_PackUnpackRoundTrip ==
    (pack.pc = "written" /\ upc \in {"done", "dead"})
        => /\ upc = "done"
           /\ FilesAndLinks(pack.T) \subseteq ufs
           /\ \A n \in FilesAndLinks(ufs) :
                  n \in pack.T \/ (n.path = manifest_path /\ n.kind = "file")

----
\* ---- the hasher: src/src/sha256.c ----
\* h[] is a function of the blocks compressed, in order; the model keeps
\* the blocks.  A byte is a number in 0..255.

\* the length of the messages fed and of one update
MaxMsgLen == 130
MaxChunk == 70

SHA_BLOCK == 64

\* the byte at position i of the message fed
MsgByte(i) == (i % 251) + 1
Message(L) == [i \in 1..L |-> MsgByte(i)]

Zeros(n) == [i \in 1..n |-> 0]

\* the eight bytes (uint8_t)(v >> 56) .. (uint8_t)v, for v < 2^32
BigEndian64(v) ==
    <<0, 0, 0, 0, (v \div 16777216) % 256, (v \div 65536) % 256, (v \div 256) % 256, v % 256>>

\* sha256_inc_init
sha256_inc_init == [buf |-> <<>>, bitlen |-> 0, blocks |-> <<>>]

RECURSIVE UpdateLoop(_, _)
\* while (len > 0) of sha256_inc_update: buf holds the buflen bytes buffered
UpdateLoop(ctx, data) ==
    IF data = <<>> THEN ctx
    ELSE LET room == SHA_BLOCK - Len(ctx.buf)
             take == IF room > Len(data) THEN Len(data) ELSE room
             buf == ctx.buf \o SubSeq(data, 1, take)
             rest == SubSeq(data, take + 1, Len(data))
         IN IF Len(buf) = SHA_BLOCK
            THEN UpdateLoop([ctx EXCEPT !.buf = <<>>, !.blocks = Append(@, buf)], rest)
            ELSE UpdateLoop([ctx EXCEPT !.buf = buf], rest)

\* sha256_inc_update(ctx, data, len)
sha256_inc_update(ctx, data) ==
    UpdateLoop([ctx EXCEPT !.bitlen = @ + Len(data) * 8], data)

\* sha256_inc_final up to the last sha256_inc_update; the digest is h[].
\* The length field is ctx->bitlen as it is after
\* sha256_inc_update(ctx, pad, padlen), which added 8 * padlen to it.
sha256_inc_final(ctx) ==
    LET buflen == Len(ctx.buf)
        padlen == IF buflen < 56 THEN 56 - buflen ELSE 64 + 56 - buflen
        pad == <<128>> \o Zeros(padlen - 1)
        padded == sha256_inc_update(ctx, pad)
    IN sha256_inc_update(padded, BigEndian64(padded.bitlen))

RECURSIVE FullBlocks(_)
\* while (rem >= 64) of the one-shot sha256: the blocks compressed, and
\* what is left
FullBlocks(data) ==
    IF Len(data) < SHA_BLOCK THEN [blocks |-> <<>>, rest |-> data]
    ELSE LET r == FullBlocks(SubSeq(data, SHA_BLOCK + 1, Len(data)))
         IN [blocks |-> <<SubSeq(data, 1, SHA_BLOCK)>> \o r.blocks, rest |-> r.rest]

\* the blocks the one-shot sha256(data, len, digest) compresses
sha256(data) ==
    LET f == FullBlocks(data)
        rem == Len(f.rest)
        pad_len == IF rem + 1 + 8 <= 64 THEN 64 ELSE 128
        tail == f.rest \o <<128>> \o Zeros(pad_len - 8 - rem - 1)
                   \o BigEndian64(Len(data) * 8)
    IN f.blocks \o <<SubSeq(tail, 1, 64)>>
          \o (IF pad_len = 128 THEN <<SubSeq(tail, 65, 128)>> ELSE <<>>)

ShaInit ==
    /\ UnpAtRest
    /\ ImpAtRest
    /\ ProfAtRest
    /\ InstAtRest
    /\ PackAtRest
    /\ LibsAtRestBut("sha")
    /\ sha = [pc |-> "init", fed |-> 0, calls |-> 0, ctx |-> sha256_inc_init]

\* one call sha256_inc_update(ctx, p, n) with the next n bytes
ShaUpdate(n) ==
    /\ sha.pc = "init"
    /\ sha.fed + n <= MaxMsgLen
    /\ sha' = [sha EXCEPT
                 !.fed = @ + n,
                 !.calls = IF @ < 2 THEN @ + 1 ELSE @,
                 !.ctx = sha256_inc_update(@, [i \in 1..n |-> MsgByte(sha.fed + i)])]
    /\ UNCHANGED <<uvars, ivars, pvars, mvars, kvars>>
    /\ LibsUnchangedBut("sha")

\* sha256_inc_final(ctx, digest)
ShaFinal ==
    /\ sha.pc = "init"
    /\ sha' = [sha EXCEPT !.pc = "final", !.ctx = sha256_inc_final(@)]
    /\ UNCHANGED <<uvars, ivars, pvars, mvars, kvars>>
    /\ LibsUnchangedBut("sha")

ShaNext ==
    \/ \E n \in 0..MaxChunk : ShaUpdate(n)
    \/ ShaFinal

SpecSha == ShaInit /\ [][ShaNext]_vars

----
\* ---- properties of the hasher ----

RECURSIVE Flatten(_)
Flatten(blocks) == IF blocks = <<>> THEN <<>> ELSE Head(blocks) \o Flatten(Tail(blocks))

\* the message, 0x80, the fewest zero bytes that bring the length to 56
\* mod 64, and the bit count of the message as eight big-endian bytes
Padded(L) ==
    LET z == (64 + 56 - ((L + 1) % 64)) % 64
    IN Message(L) \o <<128>> \o Zeros(z) \o BigEndian64(8 * L)

\* C21: whatever the chunking of the message over sha256_inc_update calls
\* (no call at all included), the blocks compressed when sha256_inc_final
\* returns are the message followed by 0x80, zero bytes up to 56 mod 64 and
\* the big-endian 64-bit count of the message's bits, and they are the
\* blocks the one-shot sha256 compresses for the same message.
C21_StreamingPadsLikeOneShot ==
    sha.pc = "final"
        => /\ Flatten(sha.ctx.blocks) = Padded(sha.fed)
           /\ sha.ctx.blocks = sha256(Message(sha.fed))
           /\ sha.ctx.buf = <<>>

----
\* ---- hex conversion: src/src/sha256.c ----
\* A character is its code: '0' = 48 .. '9' = 57, 'A' = 65 .. 'F' = 70,
\* 'a' = 97 .. 'f' = 102.

\* the longest string handed to hex_to_bin apart from encoded digests
MaxHexLen == 4

SHA256_BIN_LEN == 32

\* '/', '0', '9', ':', 'A', 'F', 'G', 'a', 'f', 'g'
HexAlphabet == {47, 48, 57, 58, 65, 70, 71, 97, 102, 103}
HexStrings == UNION { [1..n -> HexAlphabet] : n \in 0..MaxHexLen }
OutLens == {1, 2}

\* the digests encoded
Digests32 ==
    { [i \in 1..SHA256_BIN_LEN |-> b] : b \in {0, 9, 10, 15, 16, 159, 160, 255} }
        \cup { [i \in 1..SHA256_BIN_LEN |-> (i * k) % 256] : k \in {1, 7, 37, 101} }

\* hex[v] for hex[] = "0123456789abcdef"
HexChar(v) == IF v < 10 THEN 48 + v ELSE 87 + v

\* sha256_to_hex(digest, out_hex): the 64 characters before the NUL
sha256_to_hex(digest) ==
    [j \in 1..(2 * SHA256_BIN_LEN) |->
        IF j % 2 = 1 THEN HexChar((digest[(j + 1) \div 2] \div 16) % 16)
        ELSE HexChar(digest[j \div 2] % 16)]

\* a value function that does not know the upper-case digits
DigitValueLowerOnly(a) ==
    IF a >= 48 /\ a <= 57 THEN a - 48
    ELSE IF a >= 97 /\ a <= 102 THEN a - 97 + 10
    ELSE 255

\* va, vb of hex_to_bin
DigitValue(a) ==
    IF a >= 48 /\ a <= 57 THEN a - 48
    ELSE IF a >= 97 /\ a <= 102 THEN a - 97 + 10
    ELSE IF a >= 65 /\ a <= 70 THEN a - 65 + 10
    ELSE 255

RECURSIVE HexLoop(_, _, _, _)
\* the for loop of hex_to_bin from index i (0-based in the code)
HexLoop(hex, need, i, out) ==
    IF i > need THEN [rc |-> need, out |-> out]
    ELSE LET va == DigitValue(hex[2 * i - 1])
             vb == DigitValue(hex[2 * i])
         IN IF va = 255 \/ vb = 255 THEN [rc |-> -1, out |-> out]
            ELSE HexLoop(hex, need, i + 1, Append(out, (va * 16 + vb) % 256))

\* hex_to_bin(hex, out, outlen): the value returned and the bytes written
hex_to_bin(hex, outlen) ==
    LET hlen == Len(hex)
        need == hlen \div 2
    IN IF hlen % 2 # 0 THEN [rc |-> -1, out |-> <<>>]
       ELSE IF need > outlen THEN [rc |-> -1, out |-> <<>>]
       ELSE HexLoop(hex, need, 1, <<>>)

HexInit ==
    /\ UnpAtRest
    /\ ImpAtRest
    /\ ProfAtRest
    /\ InstAtRest
    /\ PackAtRest
    /\ LibsAtRestBut("hx")
    /\ hx \in { [pc |-> "string", digest |-> <<>>, hex |-> s, outlen |-> n,
                 out |-> <<>>, rc |-> 0] : s \in HexStrings, n \in OutLens }
          \cup { [pc |-> "digest", digest |-> d, hex |-> <<>>, outlen |-> SHA256_BIN_LEN,
                  out |-> <<>>, rc |-> 0] : d \in Digests32 }

\* sha256_to_hex(digest, hex)
HexEncode ==
    /\ hx.pc = "digest"
    /\ hx' = [hx EXCEPT !.pc = "string", !.hex = sha256_to_hex(hx.digest)]
    /\ UNCHANGED <<uvars, ivars, pvars, mvars, kvars>>
    /\ LibsUnchangedBut("hx")

\* hex_to_bin(hex, out, outlen)
HexDecode ==
    /\ hx.pc = "string"
    /\ LET r == hex_to_bin(hx.hex, hx.outlen)
       IN hx' = [hx EXCEPT !.pc = "decoded", !.out = r.out, !.rc = r.rc]
    /\ UNCHANGED <<uvars, ivars, pvars, mvars, kvars>>
    /\ LibsUnchangedBut("hx")

HexNext ==
    \/ HexEncode
    \/ HexDecode

SpecHex == HexInit /\ [][HexNext]_vars

----
\* ---- properties of the hex conversion ----

IsHexChar(c) == c \in (48..57) \cup (65..70) \cup (97..102)
WellFormedHex(s) == Len(s) % 2 = 0 /\ \A i \in 1..Len(s) : IsHexChar(s[i])

\* the value of a hexadecimal digit
HexValueOf(c) ==
    IF c \in 48..57 THEN c - 48 ELSE IF c \in 65..70 THEN c - 55 ELSE c - 87

\* C22 as stated: hex_to_bin returns an error for every string that is of
\* odd length, holds a character outside 0-9a-fA-F, or does not decode to
\* exactly outlen bytes (too long or too short, the empty string included).
C22_WrongSizeIsError ==
    (hx.pc = "decoded" /\ (~WellFormedHex(hx.hex) \/ Len(hx.hex) # 2 * hx.outlen))
        => hx.rc = -1

\* C22 (amended): hex_to_bin returns -1 exactly for the strings that are of
\* odd length, hold a character outside 0-9a-fA-F, or are longer than
\* 2*outlen characters; for a well-formed string of 2k <= 2*outlen
\* characters it writes the k decoded bytes and returns k, so it returns
\* outlen exactly for the well-formed strings of 2*outlen characters; and
\* hex_to_bin(sha256_to_hex(d)) returns 32 and writes d for a digest d.
C22_HexToBinReturnsCountOrError ==
    hx.pc = "decoded"
        => /\ hx.rc = -1 <=> (~WellFormedHex(hx.hex) \/ Len(hx.hex) > 2 * hx.outlen)
           /\ hx.rc # -1 =>
                 /\ hx.rc = Len(hx.hex) \div 2
                 /\ hx.out = [i \in 1..hx.rc |->
                                 16 * HexValueOf(hx.hex[2 * i - 1]) + HexValueOf(hx.hex[2 * i])]
           /\ hx.rc = hx.outlen <=> (WellFormedHex(hx.hex) /\ Len(hx.hex) = 2 * hx.outlen)
           /\ hx.digest # <<>> => (hx.rc = SHA256_BIN_LEN /\ hx.out = hx.digest)

\* a digest with bytes above 0x9f was encoded and decoded back
C22_Witness ==
    /\ hx.pc = "decoded"
    /\ hx.digest # <<>>
    /\ hx.digest[1] = 255
    /\ hx.rc = SHA256_BIN_LEN
    /\ hx.out = hx.digest

----
\* ---- the registry client in the install command ----
\* src/src/registry_client.c and main of src/unnamed/part_003.  The parsed
\* index is one heap block, "none" before acl_parse_string returned it,
\* then "live", then "freed"; frees lists who called acl_free on it.

\* the calls of main after the index was fetched, each of which can fail
\* and make main clean up and return 1 (lines 296-383)
MainCalls ==
    << "find_urls", "fetch_manifest", "manifest_fields", "manifest_match", "download",
       "download_outputs", "compare", "import", "store_path" >>

\* the allocations and the call that can fail on the way to the activation
\* (lines 401-436)
ActivateCalls == << "strdup", "malloc", "assemble" >>

ClientInit ==
    /\ UnpAtRest
    /\ ImpAtRest
    /\ ProfAtRest
    /\ InstAtRest
    /\ PackAtRest
    /\ LibsAtRestBut("rcl")
    /\ rcl \in { [pc |-> "create", no_activate |-> n, assume_yes |-> y,
                  i |-> 0, client |-> "none", index_acl |-> "NULL", index |-> "none",
                  frees |-> <<>>, status |-> 0, aborted |-> FALSE] :
                    n \in BOOLEAN, y \in BOOLEAN }

\* acl_free(block) called by `by` on the index block
acl_free_index(r, by) ==
    [r EXCEPT !.index = "freed", !.frees = Append(@, by)]

\* lines 287-291: registry_client_create and registry_client_set_index; when
\* the latter fails the client is destroyed and main returns 1
ClientCreate(created, set) ==
    /\ rcl.pc = "create"
    /\ rcl' = IF ~created THEN [rcl EXCEPT !.pc = "exit", !.status = 1]
              ELSE IF ~set THEN [rcl EXCEPT !.pc = "destroy", !.status = 1, !.client = "live"]
              ELSE [rcl EXCEPT !.pc = "fetch_index", !.client = "live"]
    /\ UNCHANGED <<uvars, ivars, pvars, mvars, kvars>>
    /\ LibsUnchangedBut("rcl")

\* registry_client_fetch_index, and line 293 of main.  outcome: the text
\* could not be had ("text"), acl_parse_string failed ("parse"),
\* acl_resolve_all failed ("resolve": the block is freed here, before it was
\* ever cached), or the block is cached and returned ("ok").
ClientFetchIndex(outcome) ==
    /\ rcl.pc = "fetch_index"
    /\ rcl' = CASE outcome = "text" -> [rcl EXCEPT !.pc = "destroy", !.status = 1]
                [] outcome = "parse" -> [rcl EXCEPT !.pc = "destroy", !.status = 1]
                [] outcome = "resolve" ->
                       [acl_free_index(rcl, "registry_client_fetch_index")
                           EXCEPT !.pc = "destroy", !.status = 1]
                [] OTHER -> [rcl EXCEPT !.pc = "call", !.i = 1, !.index = "live",
                                        !.index_acl = "index"]
    /\ UNCHANGED <<uvars, ivars, pvars, mvars, kvars>>
    /\ LibsUnchangedBut("rcl")

\* lines 296-383: the next call of main; when it fails main goes to its
\* cleanup with status 1; after the last one it goes on to the activation,
\* or to the final cleanup (--no-activate)
ClientCall(ok) ==
    /\ rcl.pc = "call"
    /\ rcl' = IF ~ok THEN [rcl EXCEPT !.pc = "free_index", !.status = 1]
              ELSE IF rcl.i < Len(MainCalls) THEN [rcl EXCEPT !.i = @ + 1]
              ELSE IF rcl.no_activate THEN [rcl EXCEPT !.pc = "free_index", !.status = 0]
              ELSE [rcl EXCEPT !.pc = "prompt"]
    /\ UNCHANGED <<uvars, ivars, pvars, mvars, kvars>>
    /\ LibsUnchangedBut("rcl")

\* line 395: prompt_yesno; with -y the answer is yes
ClientPrompt(yes) ==
    /\ rcl.pc = "prompt"
    /\ rcl.assume_yes => yes
    /\ rcl' = IF yes THEN [rcl EXCEPT !.pc = "activate", !.i = 1]
              ELSE [rcl EXCEPT !.pc = "free_index", !.status = 0]
    /\ UNCHANGED <<uvars, ivars, pvars, mvars, kvars>>
    /\ LibsUnchangedBut("rcl")

\* lines 399-445: the plan is built, the profile assembled (a failure of
\* these returns 1) and activated (whose result changes nothing here)
ClientActivate(ok) ==
    /\ rcl.pc = "activate"
    /\ rcl' = IF ~ok THEN [rcl EXCEPT !.pc = "free_index", !.status = 1]
              ELSE IF rcl.i < Len(ActivateCalls) THEN [rcl EXCEPT !.i = @ + 1]
              ELSE [rcl EXCEPT !.pc = "free_index", !.status = 0]
    /\ UNCHANGED <<uvars, ivars, pvars, mvars, kvars>>
    /\ LibsUnchangedBut("rcl")

\* acl_free(index) in the cleanup of main: lines 302, 311, 320, 329, 342,
\* 350, 360, 372, 380, 405, 416, 433, 455
ClientFreeIndex ==
    /\ rcl.pc = "free_index"
    /\ rcl' = [acl_free_index(rcl, "main") EXCEPT !.pc = "destroy"]
    /\ UNCHANGED <<uvars, ivars, pvars, mvars, kvars>>
    /\ LibsUnchangedBut("rcl")

\* registry_client_destroy(rc), then main returns.  acl_free of a block
\* that was freed already is undefined: the process is aborted by the
\* allocator (abort) or goes on (main returns its status).
ClientDestroy(abort) ==
    /\ rcl.pc = "destroy"
    /\ LET twice == rcl.index_acl # "NULL" /\ rcl.index = "freed"
           r == IF rcl.index_acl # "NULL"
                THEN acl_free_index(rcl, "registry_client_destroy") ELSE rcl
       IN /\ abort => twice
          /\ rcl' = [r EXCEPT !.pc = "exit", !.client = "freed", !.aborted = abort]
    /\ UNCHANGED <<uvars, ivars, pvars, mvars, kvars>>
    /\ LibsUnchangedBut("rcl")

ClientNext ==
    \/ \E created \in BOOLEAN, set \in BOOLEAN : ClientCreate(created, set)
    \/ \E o \in {"text", "parse", "resolve", "ok"} : ClientFetchIndex(o)
    \/ \E ok \in BOOLEAN : ClientCall(ok)
    \/ \E yes \in BOOLEAN : ClientPrompt(yes)
    \/ \E ok \in BOOLEAN : ClientActivate(ok)
    \/ ClientFreeIndex
    \/ \E abort \in BOOLEAN : ClientDestroy(abort)

SpecClient == ClientInit /\ [][ClientNext]_vars

----
\* ---- properties of the registry client ----

\* C23: the cached index belongs to the client alone: on every path of the
\* install command on which registry_client_fetch_index succeeded, the
\* index block is never freed by the caller and never freed twice, and when
\* the command has ended it has been freed exactly once, by
\* registry_client_destroy.
C23_IndexFreedOnceByClient ==
    rcl.index_acl # "NULL"
        => /\ \A k \in 1..Len(rcl.frees) : rcl.frees[k] = "registry_client_destroy"
           /\ Len(rcl.frees) <= 1
           /\ rcl.pc = "exit" => rcl.frees = <<"registry_client_destroy">>

----
\* ---- lookups in the index: src/src/registry_client.c ----
\* A key path is known by its scope ("Registry.Package" or "Package"), its
\* form (below Version["V"], with suffix _V, or the base URL) and its
\* field; a name or version by a tag and its length in bytes.  The index
\* is the set of the key paths for the name and version asked for that are
\* present with a string value; the value of a key is the key, tagged.

PATH_BUF == 512

PkgIds == { [tag |-> "n", len |-> 1], [tag |-> "long-n", len |-> 300] }
VerIds == { [tag |-> "v", len |-> 1], [tag |-> "long-v", len |-> 175] }

Scopes == <<"Registry.Package", "Package">>
Key(scope, form, field) == [scope |-> scope, form |-> form, field |-> field]
ValueOf(k) == <<"value", k>>

\* the keys an index can hold for a name and a version
IndexKeys ==
    { Key(s, f, fld) : s \in {"Registry.Package", "Package"}, f \in {"Version", "suffix"},
                       fld \in {"manifest_url", "pkg_url"} }
        \cup { Key(s, "base", "pkg_base_url") : s \in {"Registry.Package", "Package"} }

\* the number of characters vsnprintf produces for the path of key k
FormattedLen(k, name, ver) ==
    LET scope == IF k.scope = "Package" THEN 9 ELSE 18
        field == CASE k.field = "manifest_url" -> 12
                   [] k.field = "pkg_url" -> 7
                   [] OTHER -> 12
    IN CASE k.form = "Version" -> scope + name.len + 12 + ver.len + 3 + field
         [] k.form = "suffix" -> scope + name.len + 3 + field + 1 + ver.len
         [] OTHER -> scope + name.len + 3 + field

\* acl_get_string_dup_fmt(root, fmt, ...): NULL when the path does not fit
\* in path[512] or acl_get_string finds no string there
acl_get_string_dup_fmt(index, k, name, ver) ==
    IF FormattedLen(k, name, ver) >= PATH_BUF THEN NULL
    ELSE IF k \in index THEN ValueOf(k)
    ELSE NULL

RECURSIVE FirstHit(_, _, _, _)
\* res = acl_get_string_dup_fmt(...); if (res) return res; for each key
FirstHit(index, keys, name, ver) ==
    IF keys = <<>> THEN NULL
    ELSE LET res == acl_get_string_dup_fmt(index, Head(keys), name, ver)
         IN IF res # NULL THEN res ELSE FirstHit(index, Tail(keys), name, ver)

\* the order with the suffixed keys tried before the keys below Version
SuffixFirst(field) ==
    << Key("Registry.Package", "suffix", field), Key("Package", "suffix", field),
       Key("Registry.Package", "Version", field), Key("Package", "Version", field) >>

\* the four lookups of a finder, in the order of the code
LookupOrder(field) ==
    << Key("Registry.Package", "Version", field), Key("Package", "Version", field),
       Key("Registry.Package", "suffix", field), Key("Package", "suffix", field) >>

\* snprintf(constructed, need, "%s/%s/%s-%s.pkg", base, version, pkg_name, version)
Constructed(base, name, ver) == <<base, "/", ver.tag, "/", name.tag, "-", ver.tag, ".pkg">>

registry_client_find_manifest_url(index, name, ver) ==
    FirstHit(index, LookupOrder("manifest_url"), name, ver)

registry_client_find_pkg_url(index, name, ver) ==
    LET res == FirstHit(index, LookupOrder("pkg_url"), name, ver)
        base == FirstHit(index, << Key("Registry.Package", "base", "pkg_base_url"),
                                   Key("Package", "base", "pkg_base_url") >>, name, ver)
    IN IF res # NULL THEN res
       ELSE IF base # NULL THEN Constructed(base, name, ver)
       ELSE NULL

FindInit ==
    /\ UnpAtRest
    /\ ImpAtRest
    /\ ProfAtRest
    /\ InstAtRest
    /\ PackAtRest
    /\ LibsAtRestBut("fnd")
    /\ fnd \in { [pc |-> "index", index |-> ix, name |-> n, ver |-> v,
                  manifest_url |-> NULL, pkg_url |-> NULL] :
                    ix \in SUBSET IndexKeys, n \in PkgIds, v \in VerIds }

\* part_003:296: registry_client_find_manifest_url(index, pkg_name, pkg_ver)
FindManifestUrl ==
    /\ fnd.pc = "index"
    /\ fnd' = [fnd EXCEPT !.pc = "manifest",
                          !.manifest_url = registry_client_find_manifest_url(fnd.index, fnd.name, fnd.ver)]
    /\ UNCHANGED <<uvars, ivars, pvars, mvars, kvars>>
    /\ LibsUnchangedBut("fnd")

\* part_003:297: registry_client_find_pkg_url(index, pkg_name, pkg_ver)
FindPkgUrl ==
    /\ fnd.pc = "manifest"
    /\ fnd' = [fnd EXCEPT !.pc = "found",
                          !.pkg_url = registry_client_find_pkg_url(fnd.index, fnd.name, fnd.ver)]
    /\ UNCHANGED <<uvars, ivars, pvars, mvars, kvars>>
    /\ LibsUnchangedBut("fnd")

FindNext ==
    \/ FindManifestUrl
    \/ FindPkgUrl

SpecFind == FindInit /\ [][FindNext]_vars

----
\* ---- properties of the lookups ----

\* the keys of the claim for a field, in its order: Registry.Package["N"].
\* Version["V"].<key>, Package["N"].Version["V"].<key>,
\* Registry.Package["N"].<key>_V, Package["N"].<key>_V
ClaimedOrder(field) ==
    << Key("Registry.Package", "Version", field), Key("Package", "Version", field),
       Key("Registry.Package", "suffix", field), Key("Package", "suffix", field) >>
ClaimedBases ==
    << Key("Registry.Package", "base", "pkg_base_url"), Key("Package", "base", "pkg_base_url") >>

Present(index, keys) == { i \in 1..Len(keys) : keys[i] \in index }
FirstPresent(index, keys) ==
    LET i == CHOOSE i \in Present(index, keys) : \A j \in Present(index, keys) : i <= j
    IN keys[i]

\* what the claim says the two finders return
ExpectedManifestUrl ==
    IF Present(fnd.index, ClaimedOrder("manifest_url")) # {}
    THEN ValueOf(FirstPresent(fnd.index, ClaimedOrder("manifest_url")))
    ELSE NULL
ExpectedPkgUrl ==
    IF Present(fnd.index, ClaimedOrder("pkg_url")) # {}
    THEN ValueOf(FirstPresent(fnd.index, ClaimedOrder("pkg_url")))
    ELSE IF Present(fnd.index, ClaimedBases) # {}
    THEN Constructed(ValueOf(FirstPresent(fnd.index, ClaimedBases)), fnd.name, fnd.ver)
    ELSE NULL

FindersAsClaimed ==
    /\ fnd.pc \in {"manifest", "found"} => fnd.manifest_url = ExpectedManifestUrl
    /\ fnd.pc = "found" => fnd.pkg_url = ExpectedPkgUrl

\* every key path of the name and version fits in the buffer of 512 bytes
PathsFit == \A k \in IndexKeys : FormattedLen(k, fnd.name, fnd.ver) < PATH_BUF

\* C24 as stated: both finders return the value of the first present key
\* in the fixed order, find_pkg_url after that the URL built from the
\* first present base URL key, and NULL when no key is present.
C24_FirstPresentKeyWins == FindersAsClaimed

\* C24 (amended): the same, for names and versions whose key paths fit in
\* the 512-byte buffer the paths are formatted into (45 + len(N) + len(V)
\* <= 511); a key whose path does not fit is treated as absent.
C24_FirstFittingKeyWins == PathsFit => FindersAsClaimed

\* a lookup fell through to a later key: the index holds only the suffixed
\* keys of the non-nested Package, which both finders returned
C24_Witness ==
    /\ fnd.pc = "found"
    /\ PathsFit
    /\ fnd.index = { Key("Package", "suffix", "manifest_url"), Key("Package", "suffix", "pkg_url"),
                     Key("Package", "base", "pkg_base_url") }
    /\ fnd.manifest_url = ValueOf(Key("Package", "suffix", "manifest_url"))
    /\ fnd.pkg_url = ValueOf(Key("Package", "suffix", "pkg_url"))

----
\* ---- download to a temporary file: src/src/downloader.c, part_004 ----
\* The function has two sources: src/src/downloader.c hashes the bytes as
\* the write callback receives them (sha256_inc_*), part_004 reads the
\* closed file back and hashes it with the one-shot sha256.  A digest is
\* known by the blocks it was compressed from.

CURLE_OK == 0
CURLE_COULDNT_CONNECT == 7
CURLE_RECV_ERROR == 56
CURLE_OTHER_ERROR == 99

MaxBody == 3
BodyLens == 0..MaxBody
Unassigned == "unassigned"
NoFile == [exists |-> FALSE, bytes |-> <<>>]
Sources == {"downloader.c", "part_004"}

DlInit ==
    /\ UnpAtRest
    /\ ImpAtRest
    /\ ProfAtRest
    /\ InstAtRest
    /\ PackAtRest
    /\ LibsAtRestBut("dl")
    /\ dl \in { [pc |-> "call", source |-> s, body |-> Message(L), tmp |-> NoFile,
                 received |-> <<>>, out_temp_path |-> Unassigned,
                 out_sha256_hex |-> Unassigned, rc |-> CURLE_OK] :
                   s \in Sources, L \in BodyLens }

\* return rc, after unlink(tmp_path) where the failure path has it
DlFail(d, rc, unlinked) ==
    [d EXCEPT !.pc = "returned", !.rc = rc,
              !.tmp = IF unlinked THEN NoFile ELSE @]

\* make_tempfile_path: mkstemp creates the file; strdup(tmpl) can return
\* NULL after it did, and the caller returns on a NULL path
DlMakeTemp(mkstemp_ok, strdup_ok) ==
    /\ dl.pc = "call"
    /\ dl' = IF ~mkstemp_ok THEN DlFail(dl, CURLE_OTHER_ERROR, FALSE)
             ELSE LET made == [dl EXCEPT !.tmp = [exists |-> TRUE, bytes |-> <<>>]]
                  IN IF ~strdup_ok THEN DlFail(made, CURLE_OTHER_ERROR, FALSE)
                     ELSE [made EXCEPT !.pc = "fdopen"]
    /\ UNCHANGED <<uvars, ivars, pvars, mvars, kvars>>
    /\ LibsUnchangedBut("dl")

\* fdopen, curl_global_init, curl_easy_init
DlOpen(fdopen_ok, global_ok, easy_ok) ==
    /\ dl.pc = "fdopen"
    /\ dl' = IF fdopen_ok /\ global_ok /\ easy_ok THEN [dl EXCEPT !.pc = "perform"]
             ELSE DlFail(dl, CURLE_OTHER_ERROR, TRUE)
    /\ UNCHANGED <<uvars, ivars, pvars, mvars, kvars>>
    /\ LibsUnchangedBut("dl")

\* curl_easy_perform: n bytes of the body arrive; rc is its result, werr a
\* short fwrite (in dl_write_cb for downloader.c, where it sets ctx.error)
DlPerform(n, rc, werr) ==
    /\ dl.pc = "perform"
    /\ n \in 0..Len(dl.body)
    /\ werr => n > 0 /\ (dl.source = "part_004" => rc # CURLE_OK)
    /\ LET got == SubSeq(dl.body, 1, n)
           kept == IF werr THEN SubSeq(got, 1, n - 1) ELSE got
           d == [dl EXCEPT !.tmp.bytes = kept, !.received = kept]
       IN dl' = IF rc # CURLE_OK THEN DlFail(d, rc, TRUE)
                ELSE IF werr THEN DlFail(d, CURLE_RECV_ERROR, TRUE)
                ELSE [d EXCEPT !.pc = "digest"]
    /\ UNCHANGED <<uvars, ivars, pvars, mvars, kvars>>
    /\ LibsUnchangedBut("dl")

\* the digest of downloader.c: sha256_inc_final of the context the write
\* callback updated
StreamedDigest(received) ==
    sha256_inc_final(sha256_inc_update(sha256_inc_init, received)).blocks

\* from the end of the transfer to the return: downloader.c finalizes the
\* hasher, allocates hex, flushes and closes; part_004 flushes and closes,
\* stats and reads the file back, hashes it and allocates hex.  flush_ok:
\* fflush/fclose wrote the buffered bytes (their results are not looked at)
DlDigest(flush_ok, read_ok, malloc_ok) ==
    /\ dl.pc = "digest"
    /\ LET file == IF flush_ok THEN dl.tmp.bytes ELSE <<>>
           d == [dl EXCEPT !.tmp.bytes = file]
       IN dl' = IF dl.source = "downloader.c"
                THEN IF ~malloc_ok THEN DlFail(dl, CURLE_OTHER_ERROR, TRUE)
                     ELSE [d EXCEPT !.pc = "returned", !.rc = CURLE_OK,
                                    !.out_temp_path = "tmp_path",
                                    !.out_sha256_hex = StreamedDigest(dl.received)]
                ELSE IF ~read_ok THEN DlFail(d, CURLE_RECV_ERROR, TRUE)
                ELSE IF ~malloc_ok THEN DlFail(d, CURLE_OTHER_ERROR, TRUE)
                ELSE [d EXCEPT !.pc = "returned", !.rc = CURLE_OK,
                               !.out_temp_path = "tmp_path",
                               !.out_sha256_hex = sha256(file)]
    /\ UNCHANGED <<uvars, ivars, pvars, mvars, kvars>>
    /\ LibsUnchangedBut("dl")

DlNext ==
    \/ \E mk, dup \in BOOLEAN : DlMakeTemp(mk, dup)
    \/ \E fo, gl, ea \in BOOLEAN : DlOpen(fo, gl, ea)
    \/ \E n \in 0..MaxBody, rc \in {CURLE_OK, CURLE_COULDNT_CONNECT, CURLE_RECV_ERROR},
          werr \in BOOLEAN : DlPerform(n, rc, werr)
    \/ \E fl, rd, ma \in BOOLEAN : DlDigest(fl, rd, ma)

SpecDownload == DlInit /\ [][DlNext]_vars

----
\* ---- properties of the download ----

\* C25: on a nonzero return the temporary file is gone and neither out
\* parameter was assigned; on return 0 the file exists and the digest is
\* the SHA-256 of exactly the bytes in it.
C25_TempAndDigestOnlyOnSuccess ==
    dl.pc = "returned" =>
        IF dl.rc # CURLE_OK
        THEN /\ ~dl.tmp.exists
             /\ dl.out_temp_path = Unassigned
             /\ dl.out_sha256_hex = Unassigned
        ELSE /\ dl.tmp.exists
             /\ dl.out_temp_path = "tmp_path"
             /\ dl.out_sha256_hex = sha256(dl.tmp.bytes)

----
\* ---- fetch_package: part_000 ----
\* The three files fetch_package keeps below $HOME/pandora: tmp/index.acl,
\* manifests/N-V-manifest.acl and pkgs/N-V.pkg.  A file is absent, good
\* (what the mirror serves for a correct package), partial (a prefix of
\* it) or bad (complete, other bytes than the manifest's sha256 names).

\* how a download_to_file can go: the whole body; curl_easy_perform fails
\* after some bytes; it returns CURLE_OK on a body cut short; the mirror
\* serves other bytes; fopen(out_path, "wb") fails
Outcomes == {"ok", "failed", "truncated", "bad", "fopen"}

FetchInit ==
    /\ UnpAtRest
    /\ ImpAtRest
    /\ ProfAtRest
    /\ InstAtRest
    /\ PackAtRest
    /\ LibsAtRestBut("ftc")
    /\ ftc \in { [pc |-> "index", run |-> 1, files |-> f, rc |-> "0", cause |-> "",
                  writing |-> "", downloaded |-> {}, first |-> <<>>] :
                    f \in [{"index", "manifest", "pkg"} -> {"absent", "good"}] }

\* download_to_file(url, out_path): fopen(out_path, "wb") creates or
\* truncates the file, curl writes into it, fclose; nothing is unlinked
download_to_file(files, path, outcome) ==
    CASE outcome = "fopen" -> [files |-> files, rc |-> "-1"]
      [] outcome = "ok" -> [files |-> [files EXCEPT ![path] = "good"], rc |-> "0"]
      [] outcome = "failed" -> [files |-> [files EXCEPT ![path] = "partial"], rc |-> "ERR_FAILED"]
      [] outcome = "truncated" -> [files |-> [files EXCEPT ![path] = "partial"], rc |-> "0"]
      [] OTHER -> [files |-> [files EXCEPT ![path] = "bad"], rc |-> "0"]

FetchReturn(f, files, rc, cause, path) ==
    [f EXCEPT !.pc = "returned", !.files = files, !.rc = rc, !.cause = cause,
              !.writing = path]

\* if (stat(path) != 0) download_to_file; then acl_parse_file and the
\* lookup of the keys, for the index and the manifest
fetch_acl_file(f, path, next, outcome) ==
    IF f.files[path] # "absent"
    THEN IF f.files[path] = "good" THEN [f EXCEPT !.pc = next]
         ELSE FetchReturn(f, f.files, "-1", "reused", path)
    ELSE LET d == download_to_file(f.files, path, outcome)
             got == [f EXCEPT !.downloaded = @ \cup {path}]
         IN IF d.rc # "0"
            THEN FetchReturn(got, d.files, "ERR_FAILED",
                             IF outcome = "fopen" THEN "fopen" ELSE "download", path)
            ELSE IF d.files[path] # "good"
            THEN FetchReturn(got, d.files, "-1",
                             IF outcome = "truncated" THEN "truncated" ELSE "parse", path)
            ELSE [got EXCEPT !.pc = next, !.files = d.files]

\* part_000:164-205: the index
FetchIndex(outcome) ==
    /\ ftc.pc = "index"
    /\ ftc.run = 2 \/ ftc.files["index"] # "absent" => outcome = "ok"
    /\ ftc' = fetch_acl_file(ftc, "index", "manifest", outcome)
    /\ UNCHANGED <<uvars, ivars, pvars, mvars, kvars>>
    /\ LibsUnchangedBut("ftc")

\* part_000:219-258: the manifest
FetchManifest(outcome) ==
    /\ ftc.pc = "manifest"
    /\ ftc.run = 2 \/ ftc.files["manifest"] # "absent" => outcome = "ok"
    /\ ftc' = fetch_acl_file(ftc, "manifest", "pkg", outcome)
    /\ UNCHANGED <<uvars, ivars, pvars, mvars, kvars>>
    /\ LibsUnchangedBut("ftc")

\* if (stat(pkg_path) != 0) download_to_file; sha256_file_hex and the
\* comparison with Manifest.sha256
FetchPkg(outcome) ==
    /\ ftc.pc = "pkg"
    /\ ftc.run = 2 \/ ftc.files["pkg"] # "absent" => outcome = "ok"
    /\ LET fresh == ftc.files["pkg"] = "absent"
           d == IF fresh THEN download_to_file(ftc.files, "pkg", outcome)
                ELSE [files |-> ftc.files, rc |-> "0"]
           got == IF fresh THEN [ftc EXCEPT !.downloaded = @ \cup {"pkg"}] ELSE ftc
       IN ftc' = IF d.rc # "0"
                 THEN FetchReturn(got, d.files, "ERR_FAILED",
                                  IF outcome = "fopen" THEN "fopen" ELSE "download", "pkg")
                 ELSE IF sha_matches(d.files["pkg"], "good")
                 THEN FetchReturn(got, d.files, "0", "", "")
                 ELSE FetchReturn(got, d.files, "ERR_FAILED",
                                  IF ~fresh THEN "reused"
                                  ELSE IF outcome = "truncated" THEN "truncated" ELSE "sha", "pkg")
    /\ UNCHANGED <<uvars, ivars, pvars, mvars, kvars>>
    /\ LibsUnchangedBut("ftc")

\* a later fetch_package of the same name and version, the transport
\* working and the package correct
FetchAgain ==
    /\ ftc.pc = "returned"
    /\ ftc.run = 1
    /\ ftc' = [ftc EXCEPT !.pc = "index", !.run = 2, !.rc = "0", !.cause = "",
                          !.writing = "", !.downloaded = {},
                          !.first = [rc |-> ftc.rc, cause |-> ftc.cause, writing |-> ftc.writing]]
    /\ UNCHANGED <<uvars, ivars, pvars, mvars, kvars>>
    /\ LibsUnchangedBut("ftc")

FetchNext ==
    \/ \E o \in Outcomes \ {"bad"} : FetchIndex(o)
    \/ \E o \in Outcomes \ {"bad"} : FetchManifest(o)
    \/ \E o \in Outcomes : FetchPkg(o)
    \/ FetchAgain

SpecFetch == FetchInit /\ [][FetchNext]_vars

----
\* ---- properties of fetch_package ----

NetworkCauses == {"download", "truncated", "sha"}

\* C26: a run that failed because a download failed or was truncated or
\* the SHA-256 did not match left no file at the path it was writing, and
\* the later run with a working transport downloaded that file again and
\* returned 0.
C26_FailedFetchLeavesNoFile ==
    /\ ftc.pc = "returned" /\ ftc.run = 1 /\ ftc.cause \in NetworkCauses
         => ftc.files[ftc.writing] = "absent"
    /\ ftc.pc = "returned" /\ ftc.run = 2 /\ ftc.first.cause \in NetworkCauses
         => ftc.rc = "0" /\ ftc.first.writing \in ftc.downloaded

----
\* ---- root discovery: part_006 fs_init, part_000 fetch_package,
\* part_005 pandora_root_get, part_002 profile_get_pandora_root ----
\* An environment variable is unset or set to a string; a string is the
\* sequence of the names of its path, the empty string the empty sequence.

Unset == [set |-> FALSE, val |-> <<>>]
SetTo(path) == [set |-> TRUE, val |-> path]

PandoraHomes == { Unset, SetTo(<<>>), SetTo(<<"opt", "pandora">>) }
Homes == { Unset, SetTo(<<>>), SetTo(<<"home", "u">>), SetTo(<<"opt">>) }

Components == {"fs_init", "fetch_package", "store_import_pkg_atomic",
               "profile_assemble_tmp", "profile_atomic_activate"}

Unresolved == [state |-> "unresolved", root |-> <<>>]
NoRoot == [state |-> "failed", root |-> <<>>]
RootAt(path) == [state |-> "root", root |-> path]

\* const char *home = getenv("HOME"); if (!home) fail; the directories are
\* home "/pandora/..." (fs_init: make_path(home, "/pandora/store"),
\* fetch_package: "%s/pandora/tmp")
home_pandora(env) ==
    IF ~env.HOME.set THEN NoRoot ELSE RootAt(env.HOME.val \o <<"pandora">>)

\* pandora_root_get (part_005) and profile_get_pandora_root (part_002)
pandora_root_get(env) ==
    IF env.PANDORA_HOME.set /\ env.PANDORA_HOME.val # <<>>
    THEN RootAt(env.PANDORA_HOME.val)
    ELSE home_pandora(env)

RootsInit ==
    /\ UnpAtRest
    /\ ImpAtRest
    /\ ProfAtRest
    /\ InstAtRest
    /\ PackAtRest
    /\ LibsAtRestBut("rts")
    /\ rts \in { [env |-> [PANDORA_HOME |-> ph, HOME |-> h],
                  resolved |-> [c \in Components |-> Unresolved]] :
                    ph \in PandoraHomes, h \in Homes }

\* part_006:14-43
RootFsInit ==
    /\ rts.resolved["fs_init"] = Unresolved
    /\ rts' = [rts EXCEPT !.resolved["fs_init"] = home_pandora(rts.env)]
    /\ UNCHANGED <<uvars, ivars, pvars, mvars, kvars>>
    /\ LibsUnchangedBut("rts")

\* part_000:101-152
RootFetchPackage ==
    /\ rts.resolved["fetch_package"] = Unresolved
    /\ rts' = [rts EXCEPT !.resolved["fetch_package"] = home_pandora(rts.env)]
    /\ UNCHANGED <<uvars, ivars, pvars, mvars, kvars>>
    /\ LibsUnchangedBut("rts")

\* part_005:72-73
RootImport ==
    /\ rts.resolved["store_import_pkg_atomic"] = Unresolved
    /\ rts' = [rts EXCEPT !.resolved["store_import_pkg_atomic"] = pandora_root_get(rts.env)]
    /\ UNCHANGED <<uvars, ivars, pvars, mvars, kvars>>
    /\ LibsUnchangedBut("rts")

\* part_002:122-123
RootAssemble ==
    /\ rts.resolved["profile_assemble_tmp"] = Unresolved
    /\ rts' = [rts EXCEPT !.resolved["profile_assemble_tmp"] = pandora_root_get(rts.env)]
    /\ UNCHANGED <<uvars, ivars, pvars, mvars, kvars>>
    /\ LibsUnchangedBut("rts")

\* part_002:229-230
RootActivate ==
    /\ rts.resolved["profile_atomic_activate"] = Unresolved
    /\ rts' = [rts EXCEPT !.resolved["profile_atomic_activate"] = pandora_root_get(rts.env)]
    /\ UNCHANGED <<uvars, ivars, pvars, mvars, kvars>>
    /\ LibsUnchangedBut("rts")

RootsNext ==
    \/ RootFsInit
    \/ RootFetchPackage
    \/ RootImport
    \/ RootAssemble
    \/ RootActivate

SpecRoots == RootsInit /\ [][RootsNext]_vars

----
\* ---- properties of root discovery ----

\* the root of the specification: $PANDORA_HOME when set and non-empty,
\* $HOME/pandora otherwise, failure with neither
DiscoveredRoot(env) ==
    IF env.PANDORA_HOME.set /\ env.PANDORA_HOME.val # <<>> THEN RootAt(env.PANDORA_HOME.val)
    ELSE IF env.HOME.set THEN RootAt(env.HOME.val \o <<"pandora">>)
    ELSE NoRoot

\* C27: in every environment each of the five components resolves the
\* root $PANDORA_HOME when it is set and non-empty and $HOME/pandora
\* otherwise, and fails with neither; so all resolve the same root.
C27_SameRootEverywhere ==
    \A c \in Components :
        rts.resolved[c] # Unresolved => rts.resolved[c] = DiscoveredRoot(rts.env)

----
\* ---- the package identity in the install command and the importer:
\* part_003 (split_name_ver, main), part_005 (store_import_pkg_atomic) ----
\* Here a path is the sequence of the tokens between its slashes as the
\* code composed it, "" and ".." included, and the tree is the one below
\* the parent of the Pandora root, which is the directory "R" in it.  A
\* name or version is the sequence of its tokens: "a/b" is <<"a", "b">>,
\* the empty string <<>>.

IdNames == { <<"p">>, <<>>, <<"..">>, <<"..", "..">>, <<"a", "b">> }
IdVersions == { <<"1">>, <<>> }

RootDir == <<"R">>
StoreDir == <<"R", "store">>

RECURSIVE Canon(_)
\* the directory the kernel reaches by a composed path whose prefixes
\* exist: empty tokens and "." are skipped, ".." leaves the last directory
Canon(raw) ==
    IF raw = <<>> THEN <<>>
    ELSE LET c == Canon(SubSeq(raw, 1, Len(raw) - 1))
             tok == raw[Len(raw)]
         IN IF tok \in {"", "."} THEN c
            ELSE IF tok = ".." THEN (IF c = <<>> THEN <<>> ELSE Parent(c))
            ELSE Append(c, tok)

RECURSIVE ensure_dir_p_raw(_, _, _)
\* ensure_dir_p on a composed path: mkdir of every prefix, EEXIST tolerated
ensure_dir_p_raw(T, raw, k) ==
    IF k > Len(raw) THEN [ok |-> TRUE, fs |-> T]
    ELSE LET c == Canon(SubSeq(raw, 1, k))
             r == IF c = <<>> THEN [ok |-> FALSE, errno |-> "EEXIST", fs |-> T]
                  ELSE mkdir(T, c)
         IN IF ~r.ok /\ r.errno # "EEXIST" THEN [ok |-> FALSE, fs |-> T]
            ELSE ensure_dir_p_raw(r.fs, raw, k + 1)

\* the paths store_import_pkg_atomic composes (lines 76-136)
IdTmpDir(t) == StoreDir \o <<t>>
IdUnpackDir(t, name, ver) == IdTmpDir(t) \o name \o ver \o <<"files">>
IdFinalParent(name) == StoreDir \o name
IdFinalDir(name, ver) == IdFinalParent(name) \o ver

\* split_name_ver(s, &name, &ver): the characters before the first '@' and
\* those after it, whatever they are; -1 without an '@'
split_name_ver(has_at, name, ver) ==
    IF has_at THEN [rc |-> 0, name |-> name, ver |-> ver]
    ELSE [rc |-> -1, name |-> <<>>, ver |-> <<>>]

IdInit ==
    /\ UnpAtRest
    /\ ImpAtRest
    /\ ProfAtRest
    /\ InstAtRest
    /\ PackAtRest
    /\ LibsAtRestBut("idn")
    /\ idn \in { [pc |-> "spec", has_at |-> at, name |-> n, ver |-> v, tmp |-> "",
                  arc |-> a, pkg |-> "file", fs |-> f, fs0 |-> f, rc |-> 0] :
                    at \in BOOLEAN, n \in IdNames, v \in IdVersions, a \in ArcKinds,
                    f \in { {DirNode(RootDir)}, {DirNode(RootDir), DirNode(StoreDir)} } }

\* main, part_003:276-281: the package spec is split; "Invalid package
\* spec" and return 2 without an '@'
IdSplit ==
    /\ idn.pc = "spec"
    /\ LET s == split_name_ver(idn.has_at, idn.name, idn.ver)
       IN idn' = IF s.rc # 0 THEN [idn EXCEPT !.pc = "returned", !.rc = 2]
                 ELSE [idn EXCEPT !.pc = "call", !.name = s.name, !.ver = s.ver]
    /\ UNCHANGED <<uvars, ivars, pvars, mvars, kvars>>
    /\ LibsUnchangedBut("idn")

\* store_import_pkg_atomic, lines 71-84: the arguments are tested for
\* NULL, R/store is ensured and mkdtemp makes store/.tmp-import-XXXXXX
IdBegin(t) ==
    /\ idn.pc = "call"
    /\ LET r == ensure_dir_p_raw(idn.fs, StoreDir, 1)
       IN idn' = IF ~r.ok THEN [idn EXCEPT !.pc = "returned", !.rc = -1]
                 ELSE [idn EXCEPT !.pc = "mkdirs", !.tmp = t,
                                  !.fs = mkdir(r.fs, IdTmpDir(t)).fs]
    /\ UNCHANGED <<uvars, ivars, pvars, mvars, kvars>>
    /\ LibsUnchangedBut("idn")

\* lines 87-90: ensure_dir_p(tmp_dir), make_path(tmp_dir, pkg_name,
\* pkg_version, "files"), ensure_dir_p(unpack_dir)
IdMkUnpackDir ==
    /\ idn.pc = "mkdirs"
    /\ LET r == ensure_dir_p_raw(idn.fs, IdUnpackDir(idn.tmp, idn.name, idn.ver), 1)
       IN idn' = IF ~r.ok
                 THEN [idn EXCEPT !.pc = "returned", !.rc = -1,
                                  !.fs = rmdir(r.fs, IdTmpDir(idn.tmp)).fs]
                 ELSE [idn EXCEPT !.pc = "unpack", !.fs = r.fs]
    /\ UNCHANGED <<uvars, ivars, pvars, mvars, kvars>>
    /\ LibsUnchangedBut("idn")

\* lines 113-148 for a validated tree: the parent of the final directory,
\* the existence test and the rename
id_publish(T, t, name, ver) ==
    LET par == ensure_dir_p_raw(T, IdFinalParent(name), 1)
        final_dir == Canon(IdFinalDir(name, ver))
        mv == rename(par.fs, Canon(IdTmpDir(t) \o name \o ver), final_dir)
    IN IF ~par.ok \/ Has(par.fs, final_dir) \/ final_dir = <<>> \/ ~mv.ok
       THEN [rc |-> -1, fs |-> rmdir(par.fs, IdTmpDir(t)).fs]
       ELSE [rc |-> 0, fs |-> rmdir(mv.fs, IdTmpDir(t)).fs]

\* lines 93-163: the hooks and the rest of the function
IdUnpack ==
    /\ idn.pc = "unpack"
    /\ \E o \in unpack_pkg_to_dir(idn.fs, idn.pkg, idn.arc, PkgPath,
                                  Canon(IdUnpackDir(idn.tmp, idn.name, idn.ver))) :
          LET unpack_dir == Canon(IdUnpackDir(idn.tmp, idn.name, idn.ver))
              p == id_publish(o.fs, idn.tmp, idn.name, idn.ver)
          IN idn' = IF o.exited THEN [idn EXCEPT !.pc = "exited", !.fs = o.fs, !.pkg = o.pkg]
                    ELSE IF o.rc # 0 \/ ~store_validate_unpacked_tree(o.fs, unpack_dir)
                    THEN [idn EXCEPT !.pc = "returned", !.rc = -1, !.pkg = o.pkg,
                                     !.fs = rmdir(o.fs, IdTmpDir(idn.tmp)).fs]
                    ELSE [idn EXCEPT !.pc = "returned", !.rc = p.rc, !.pkg = o.pkg,
                                     !.fs = p.fs]
    /\ UNCHANGED <<uvars, ivars, pvars, mvars, kvars>>
    /\ LibsUnchangedBut("idn")

IdNext ==
    \/ IdSplit
    \/ \E t \in TmpNames : IdBegin(t)
    \/ IdMkUnpackDir
    \/ IdUnpack

SpecIdentity == IdInit /\ [][IdNext]_vars

----
\* ---- properties of the package identity ----

\* a name or version that is empty or contains a slash or ".."
InvalidPart(toks) == toks = <<>> \/ Len(toks) > 1 \/ \E i \in 1..Len(toks) : toks[i] = ".."
InvalidIdentity == InvalidPart(idn.name) \/ InvalidPart(idn.ver)

InsideStore(path) == Len(path) >= 2 /\ SubSeq(path, 1, 2) = StoreDir

\* C28: for a name or version that is empty or contains `/` or `..` the
\* run changes nothing in the filesystem (no directory is created, nothing
\* is renamed), so nothing appears outside R/store/ either, and the run
\* ends with an error.
C28_InvalidIdentityRejected ==
    (idn.has_at /\ InvalidIdentity) =>
        /\ idn.fs = idn.fs0
        /\ \A n \in idn.fs \ idn.fs0 : InsideStore(n.path)
        /\ idn.pc = "returned" => idn.rc # 0

----
\* ---- profile_assemble_tmp on entry lists with a relpath below another ----

\* entry lists in which the relpath of an entry is a proper path prefix of
\* a later one and the first target is a directory (store/): the later link
\* is "b/x", which is not in the store, or "b/a", which is a file of it;
\* and lists without such a pair
PrefixLists ==
    { << Entry(<<"b">>, TargetDir), Entry(<<"b", "/", "x">>, TargetFile) >>,
      << Entry(<<"b">>, TargetDir), Entry(<<"b", "/", "a">>, TargetFile) >>,
      << Entry(<<"b">>, TargetFile), Entry(<<"b", "/", "x">>, TargetFile) >>,
      << Entry(<<"b">>, TargetFile), Entry(<<"c">>, TargetDir) >>,
      << Entry(<<"b", "/", "x">>, TargetFile), Entry(<<"b">>, TargetDir) >> }

\* one call of profile_assemble_tmp after the other
AssembleNext ==
    \/ \E p \in Procs, L \in PrefixLists, t \in TmpProfNames : Alone(p) /\ AsmCall(p, L, t)
    \/ \E p \in Procs : Alone(p) /\ AsmEntry(p)
    \/ \E p \in Procs : Alone(p) /\ AsmReturn(p)

SpecAssemble == ProfInit /\ [][AssembleNext]_vars

----
\* ---- properties of profile_assemble_tmp ----

\* a path in a profiles/.tmp-profile-* directory, or that directory
InTmpProfile(path) ==
    /\ Len(path) >= 2
    /\ SubSeq(path, 1, 1) = profiles_dir
    /\ path[2] \in TmpProfNames

\* C29: profile_assemble_tmp creates and removes nodes only inside its
\* profiles/.tmp-profile-* directory (and profiles/ itself): the store
\* entries stay as they were, no link appears and no file disappears in
\* them or anywhere else outside the temp profile.
C29_AssembleStaysInTemp ==
    /\ Under(pfs, TargetDir) = StoreNodes
    /\ \A n \in pfs :
          \/ InTmpProfile(n.path)
          \/ n \in StoreNodes \cup ActiveProfile \cup {DirNode(profiles_dir)}

\* the entry loop of process p has accepted every entry: the call returns
\* PROFILE_OK with this tree
AllEntriesLinked(p) ==
    /\ prof[p].pc = "entries"
    /\ ~prof[p].dead
    /\ prof[p].i > Len(prof[p].entries)

\* C30: when a call returns PROFILE_OK for n entries, its temp profile
\* holds exactly n symbolic links, the link of entry e at
\* <tmp>/<normalize(e.relpath)> with target e.target_path, and every other
\* node in it is a directory.
C30_OkProfileHasOneLinkPerEntry ==
    \A p \in Procs :
        AllEntriesLinked(p) =>
            LET inside == Under(pfs, prof[p].tmp) \ {DirNode(prof[p].tmp)}
                links == { n \in inside : n.kind = "link" }
            IN /\ Cardinality(links) = Len(prof[p].entries)
               /\ \A k \in 1..Len(prof[p].entries) :
                     LinkNode(prof[p].tmp \o normalize_relpath(prof[p].entries[k].relpath).path,
                              prof[p].entries[k].target_path) \in links
               /\ \A n \in inside : n.kind \in {"link", "dir"}

----
\* ---- normalize_relpath on its own: part_002 87-116, 161-177 ----

\* longest first relpath and longest second relpath, in characters
MaxRelLen == 5
MaxOtherRelLen == 3

NotNormalized == [ok |-> FALSE, path |-> <<"?">>]

\* strcmp(prevnorm, nrel) == 0 after normalize_relpath(&prevnorm,
\* entries[j].relpath) == 0, for an entry whose relpath normalized to nrel
relpath_conflict(prev, nrel) ==
    /\ normalize_relpath(prev).ok
    /\ Join(normalize_relpath(prev).path) = Join(nrel.path)

NormInit ==
    /\ UnpAtRest
    /\ ImpAtRest
    /\ ProfAtRest
    /\ InstAtRest
    /\ PackAtRest
    /\ LibsAtRestBut("nrm")
    /\ nrm \in { [pc |-> "first", a |-> a, b |-> b, na |-> NotNormalized,
                  nn |-> NotNormalized, conflict |-> FALSE] :
                    a \in Strings(MaxRelLen), b \in Strings(MaxOtherRelLen) }

\* normalize_relpath(&nrel, e->relpath) for the first relpath
NormFirst ==
    /\ nrm.pc = "first"
    /\ nrm' = [nrm EXCEPT !.pc = "again", !.na = normalize_relpath(nrm.a)]
    /\ UNCHANGED <<uvars, ivars, pvars, mvars, kvars>>
    /\ LibsUnchangedBut("nrm")

\* normalize_relpath on the string the first call returned
NormAgain ==
    /\ nrm.pc = "again"
    /\ nrm' = [nrm EXCEPT !.pc = "conflict",
                          !.nn = IF nrm.na.ok THEN normalize_relpath(Join(nrm.na.path))
                                 ELSE NotNormalized]
    /\ UNCHANGED <<uvars, ivars, pvars, mvars, kvars>>
    /\ LibsUnchangedBut("nrm")

\* the conflict search of the entry with the second relpath against the
\* entry with the first
NormConflict ==
    /\ nrm.pc = "conflict"
    /\ nrm' = [nrm EXCEPT !.pc = "done",
                          !.conflict = /\ normalize_relpath(nrm.b).ok
                                       /\ relpath_conflict(nrm.a, normalize_relpath(nrm.b))]
    /\ UNCHANGED <<uvars, ivars, pvars, mvars, kvars>>
    /\ LibsUnchangedBut("nrm")

NormNext ==
    \/ NormFirst
    \/ NormAgain
    \/ NormConflict

SpecNormalize == NormInit /\ [][NormNext]_vars

----
\* ---- properties of normalize_relpath ----

RECURSIVE DropDots(_)
\* the components without the single-dot ones
DropDots(toks) ==
    IF toks = <<>> THEN <<>>
    ELSE IF Head(toks) = Dot THEN DropDots(Tail(toks))
    ELSE <<Head(toks)>> \o DropDots(Tail(toks))

\* normalization as the claim describes it: absolute and empty paths and
\* paths with a ".." component are rejected, empty and "." components
\* dropped, a path with nothing left is rejected
DroppingNormal(p) ==
    LET kept == DropDots(Split(p))
    IN IF p = <<>> \/ p[1] = "/" \/ kept = <<>>
          \/ \E i \in 1..Len(kept) : kept[i] = DotDot
       THEN [ok |-> FALSE, path |-> <<>>]
       ELSE [ok |-> TRUE, path |-> kept]

\* no leading, trailing or repeated slash, no "." or ".." component
CanonicalForm(s) ==
    /\ s # <<>>
    /\ s[1] # "/"
    /\ s[Len(s)] # "/"
    /\ \A i \in 1..(Len(s) - 1) : ~(s[i] = "/" /\ s[i + 1] = "/")
    /\ \A i \in 1..Len(Split(s)) : Split(s)[i] \notin {Dot, DotDot}

\* C31: normalize_relpath drops empty and single-dot components instead of
\* rejecting them ("a/./a" and "a//a" both give "a/a"), its result is in
\* canonical form, normalizing the result again gives the same string, and
\* two relpaths that differ only by such components conflict.
C31_NormalizeDropsDotAndEmpty ==
    /\ nrm.pc # "first" =>
          /\ nrm.na.ok = DroppingNormal(nrm.a).ok
          /\ nrm.na.ok => /\ nrm.na.path = DroppingNormal(nrm.a).path
                          /\ CanonicalForm(Join(nrm.na.path))
    /\ (nrm.pc \in {"conflict", "done"} /\ nrm.na.ok) => nrm.nn = nrm.na
    /\ (/\ nrm.pc = "done"
        /\ DroppingNormal(nrm.a).ok
        /\ DroppingNormal(nrm.b).ok
        /\ DroppingNormal(nrm.a).path = DroppingNormal(nrm.b).path) => nrm.conflict

----
\* ---- store_validate_unpacked_tree on its own:
\* src/src/unpack_and_validate.c 91-158 ----
\* The path handed to the validator is the sequence of its components as
\* the caller wrote them; a tree is the set of the nodes below that path,
\* each with its path relative to it (the root of the walk has <<>>).

MaxTargetLen == 3
MaxOtherTargetLen == 2

\* the paths of the directory validated: plain, and with a ".." component
\* (as $PANDORA_HOME or the package name can bring in)
UnpackPaths == { <<"u">>, <<"..", "u">>, <<"u", "..", "u">> }

\* the trees below it: the directory, a file a or none, a symbolic link l
\* or none
TreesWith(maxlen) ==
    { {DirNode(<<>>)} \cup f \cup l :
        f \in { {}, {FileNode(<<"a">>, FileBlob)} },
        l \in { {} } \cup { {LinkNode(<<"l">>, t)} : t \in Strings(maxlen) } }

\* nftw(unpack_path, validate_callback, 20, FTW_PHYS): the callback sees
\* every node under its fpath, unpack_path followed by the relative path;
\* the value g_validate_err has after the walk
validate_walk(unpack_path, tree) ==
    \E n \in tree : validate_callback([n EXCEPT !.path = unpack_path \o n.path])

VldInit ==
    /\ UnpAtRest
    /\ ImpAtRest
    /\ ProfAtRest
    /\ InstAtRest
    /\ PackAtRest
    /\ LibsAtRestBut("vld")
    /\ vld \in { [pc |-> "first", path1 |-> p1, tree1 |-> t1, path2 |-> p2, tree2 |-> t2,
                  g_validate_err |-> FALSE, rc1 |-> 0, rc2 |-> 0] :
                    p1 \in UnpackPaths, t1 \in TreesWith(MaxTargetLen),
                    p2 \in UnpackPaths, t2 \in TreesWith(MaxOtherTargetLen) }

\* store_validate_unpacked_tree(path1): g_validate_err = 0, the walk,
\* return g_validate_err ? -1 : 0
VldFirst ==
    /\ vld.pc = "first"
    /\ LET g == validate_walk(vld.path1, vld.tree1)
       IN vld' = [vld EXCEPT !.pc = "second", !.g_validate_err = g,
                             !.rc1 = IF g THEN -1 ELSE 0]
    /\ UNCHANGED <<uvars, ivars, pvars, mvars, kvars>>
    /\ LibsUnchangedBut("vld")

\* the next call, store_validate_unpacked_tree(path2)
VldSecond ==
    /\ vld.pc = "second"
    /\ LET g == validate_walk(vld.path2, vld.tree2)
       IN vld' = [vld EXCEPT !.pc = "done", !.g_validate_err = g,
                             !.rc2 = IF g THEN -1 ELSE 0]
    /\ UNCHANGED <<uvars, ivars, pvars, mvars, kvars>>
    /\ LibsUnchangedBut("vld")

VldNext ==
    \/ VldFirst
    \/ VldSecond

SpecValidate == VldInit /\ [][VldNext]_vars

----
\* ---- properties of store_validate_unpacked_tree ----

\* the string s contains ".."
HasDotDot(s) == \E i \in 1..(Len(s) - 1) : s[i] = "." /\ s[i + 1] = "."

\* the tree has a path with a ".." component relative to its root, or a
\* symbolic link with an absolute target or a target containing ".."
UnsafeTree(tree) ==
    \E n \in tree :
        \/ \E i \in 1..Len(n.path) : n.path[i] = ".."
        \/ /\ n.kind = "link"
           /\ (n.data # <<>> /\ n.data[1] = "/") \/ HasDotDot(n.data)

\* C32: each call rejects its tree exactly when the tree is unsafe in this
\* sense, whatever the components of the path it was handed and whatever
\* the call before it returned.
C32_RejectsExactlyUnsafeTrees ==
    /\ vld.pc \in {"second", "done"} => (vld.rc1 # 0 <=> UnsafeTree(vld.tree1))
    /\ vld.pc = "done" => (vld.rc2 # 0 <=> UnsafeTree(vld.tree2))

----
\* ---- do_unpack on the bytes of an archive: src/src/cli/cli.c 485-597 ----
\* An archive is its table (stored path, blob_size, blob_offset, flags of
\* every entry) and the bytes that follow the table.  The bytes are
\* pairwise different, so a blob read at the wrong place shows.

MaxBlobSize == 2

\* the stored paths: empty, rejected by sanitize_relpath, accepted
StreamPaths == { <<>>, DotDot, <<"a">>, ManifestName }

\* the tables of the archives explored have this many entries
StreamCounts == {2}

BlobBytes == <<"b1", "b2", "b3", "b4", "b5", "b6", "b7", "b8">>

\* magic + entry_count
header_size == MAGIC_LEN + 8

RECURSIVE table_size(_)
\* the sum of ENTRY_HDR_SIZE + path_len over the table
table_size(table) ==
    IF table = <<>> THEN 0
    ELSE ENTRY_HDR_SIZE + Len(Head(table).raw) + table_size(Tail(table))

blob_start(table) == header_size + table_size(table)

RECURSIVE SizesBelow(_, _)
\* the sum of the sizes of the entries before entry i
SizesBelow(table, i) ==
    IF i <= 1 THEN 0 ELSE table[i - 1].size + SizesBelow(table, i - 1)

\* the tables as do_pack lays them out: every blob_offset is the place
\* of the entry's blob
PackedTables ==
    UNION { { [i \in 1..n |-> [raw |-> shape[i].raw, size |-> shape[i].size,
                               flags |-> shape[i].flags,
                               offset |-> 0]] :
                shape \in [1..n -> [raw : StreamPaths, size : 0..MaxBlobSize, flags : {0, 1}]] } :
            n \in StreamCounts }

WithOffsets(table, offs) == [i \in 1..Len(table) |-> [table[i] EXCEPT !.offset = offs[i]]]

PackedOffsets(table) == [i \in 1..Len(table) |-> blob_start(table) + SizesBelow(table, i)]

\* other values for the blob_offset fields
OtherOffsets(table) == [1..Len(table) -> {0, header_size}]

\* the byte of the archive at position p: a byte of the header or of the
\* table, or a byte of the blob region
ByteAt(table, p) ==
    IF p < blob_start(table) THEN "h" ELSE BlobBytes[p - blob_start(table) + 1]

\* fread(buf, 1, n, in) at read position p
Fread(table, p, n) == [k \in 1..n |-> ByteAt(table, p + k - 1)]

\* where the blob of a record is read: at the read position, which the
\* blobs before it have advanced; its blob_offset is not looked at
BlobPosByOffset(pos, rec) == rec.offset

BlobPos(pos, rec) == pos

StreamStart(table, other, run) ==
    [pc |-> "table", run |-> run, table |-> table, other |-> other,
     recs |-> <<>>, pos |-> 0, i |-> 1, fs |-> {}, manifest |-> NoManifest,
     starts |-> <<>>, wrote |-> <<>>, first |-> <<>>]

StreamInit ==
    /\ UnpAtRest
    /\ ImpAtRest
    /\ ProfAtRest
    /\ InstAtRest
    /\ PackAtRest
    /\ LibsAtRestBut("stm")
    /\ stm \in UNION { { StreamStart(WithOffsets(t, PackedOffsets(t)), WithOffsets(t, o), 1) :
                            o \in OtherOffsets(t) } : t \in PackedTables }

\* lines 485-517: the table loop
StmTable ==
    /\ stm.pc = "table"
    /\ LET san(e) == IF Len(e.raw) = 0 THEN [st |-> "null", path |-> NULL]
                     ELSE sanitize_relpath(e.raw)
           died == \E k \in 1..Len(stm.table) : san(stm.table[k]).st = "die"
       IN stm' = [stm EXCEPT
                    !.pc = IF died THEN "dead" ELSE "manifest",
                    !.recs = IF died THEN <<>>
                             ELSE [k \in 1..Len(stm.table) |->
                                     [path |-> san(stm.table[k]).path,
                                      size |-> stm.table[k].size,
                                      offset |-> stm.table[k].offset,
                                      flags |-> stm.table[k].flags]],
                    !.pos = header_size + table_size(stm.table)]
    /\ UNCHANGED <<uvars, ivars, pvars, mvars, kvars>>
    /\ LibsUnchangedBut("stm")

\* lines 519-536: dest/.manifest is created, fseeko(in, blob_start)
StmBeginBlobs ==
    /\ stm.pc = "manifest"
    /\ LET o == manifest_open(stm.fs)
       IN stm' = [stm EXCEPT
                    !.pc = IF o.ok THEN "blobs" ELSE "dead",
                    !.fs = o.fs,
                    !.manifest = [exists |-> o.ok, lines |-> <<>>, linked |-> o.ok],
                    !.pos = header_size + table_size(stm.table),
                    !.i = 1]
    /\ UNCHANGED <<uvars, ivars, pvars, mvars, kvars>>
    /\ LibsUnchangedBut("stm")

\* lines 538-594: one iteration of the blob loop
StmExtract ==
    /\ stm.pc = "blobs"
    /\ stm.i <= Len(stm.recs)
    /\ LET rec == stm.recs[stm.i]
           at == BlobPos(stm.pos, rec)
           blob == Fread(stm.table, at, rec.size)
       IN IF rec.path = NULL
          THEN stm' = [stm EXCEPT !.i = @ + 1,
                                  !.pos = @ + rec.size,
                                  !.starts = Append(@, stm.pos),
                                  !.wrote = Append(@, <<"skipped">>)]
          ELSE \E o \in ExtractOutcomes([fs |-> stm.fs, out |-> {}, died |-> FALSE],
                                        [path |-> rec.path, flags |-> rec.flags, blob |-> blob],
                                        FALSE) :
                  LET linked == /\ stm.manifest.linked
                                /\ Has(o.fs, manifest_path)
                                /\ Node(o.fs, manifest_path).kind = "file"
                      m == IF o.died THEN [stm.manifest EXCEPT !.linked = linked]
                           ELSE [stm.manifest EXCEPT !.lines = Append(@, rec.path),
                                                     !.linked = linked]
                  IN stm' = [stm EXCEPT
                               !.pc = IF o.died THEN "dead" ELSE @,
                               !.i = IF o.died THEN @ ELSE @ + 1,
                               !.pos = at + rec.size,
                               !.starts = Append(@, at),
                               !.wrote = Append(@, blob),
                               !.manifest = m,
                               !.fs = IF o.died THEN manifest_flush(o.fs, m) ELSE o.fs]
    /\ UNCHANGED <<uvars, ivars, pvars, mvars, kvars>>
    /\ LibsUnchangedBut("stm")

\* lines 596-603: fclose(manifest)
StmFinish ==
    /\ stm.pc = "blobs"
    /\ stm.i > Len(stm.recs)
    /\ stm' = [stm EXCEPT !.pc = "done", !.fs = manifest_flush(stm.fs, stm.manifest)]
    /\ UNCHANGED <<uvars, ivars, pvars, mvars, kvars>>
    /\ LibsUnchangedBut("stm")

\* do_unpack of the other archive into an empty directory of its own
StmSecond ==
    /\ stm.pc = "done"
    /\ stm.run = 1
    /\ stm' = [StreamStart(stm.other, stm.table, 2) EXCEPT
                 !.first = [fs |-> stm.fs, lines |-> stm.manifest.lines]]
    /\ UNCHANGED <<uvars, ivars, pvars, mvars, kvars>>
    /\ LibsUnchangedBut("stm")

StreamNext ==
    \/ StmTable
    \/ StmBeginBlobs
    \/ StmExtract
    \/ StmFinish
    \/ StmSecond

SpecStream == StreamInit /\ [][StreamNext]_vars

----
\* ---- properties of do_unpack on the bytes of an archive ----

\* the bytes of the blob of entry i, by the layout of the archive
OwnBlob(table, i) ==
    [k \in 1..table[i].size |-> BlobBytes[SizesBelow(table, i) + k]]

Accepted(rs) == { i \in 1..Len(rs) : rs[i].path # NULL }

Skipped(rs) == { i \in 1..Len(rs) : rs[i].path = NULL }

RECURSIVE AcceptedPaths(_)
\* the paths of the accepted entries, in table order
AcceptedPaths(rs) ==
    IF rs = <<>> THEN <<>>
    ELSE IF Head(rs).path = NULL THEN AcceptedPaths(Tail(rs))
    ELSE <<Head(rs).path>> \o AcceptedPaths(Tail(rs))

\* every blob was read where the blobs before it end
StreamAligned ==
    \A i \in 1..Len(stm.starts) :
        stm.starts[i] = blob_start(stm.table) + SizesBelow(stm.table, i)

\* every accepted entry was written with the bytes of its own blob
OwnBytesWritten ==
    \A i \in 1..Len(stm.wrote) :
        stm.recs[i].path # NULL => stm.wrote[i] = OwnBlob(stm.table, i)

\* dest/.manifest is a file that lists the accepted paths, one per line
ManifestListsAccepted ==
    /\ Has(stm.fs, manifest_path)
    /\ Node(stm.fs, manifest_path).kind = "file"
    /\ Node(stm.fs, manifest_path).data = ManifestText(AcceptedPaths(stm.recs))

\* C33: when do_unpack has finished an archive whose table has accepted
\* and skipped entries, the read position stood at the start of every
\* entry's blob, every accepted entry was written with its own bytes, and
\* dest/.manifest lists exactly the accepted paths in table order.
C33_StreamStaysAligned ==
    (stm.pc = "done" /\ Accepted(stm.recs) # {} /\ Skipped(stm.recs) # {})
        => /\ StreamAligned
           /\ OwnBytesWritten
           /\ ManifestListsAccepted

\* the two archives differ in a blob_offset field, and nothing else
OffsetsDiffer ==
    /\ stm.table # stm.other
    /\ \A k \in 1..Len(stm.table) :
          [stm.table[k] EXCEPT !.offset = 0] = [stm.other[k] EXCEPT !.offset = 0]

\* C34: when do_unpack has finished both archives, which differ only in
\* their blob_offset fields, the two trees and the two manifests are the
\* same, and in both runs every blob was read at header_size + table_size
\* plus the sizes of the entries before it.
C34_BlobOffsetIgnored ==
    /\ StreamAligned
    /\ (stm.pc = "done" /\ stm.run = 2)
          => /\ stm.fs = stm.first.fs
             /\ stm.manifest.lines = stm.first.lines

\* both archives are unpacked, their blob_offset fields differ, and a
\* later accepted entry has bytes of its own
C34_Witness ==
    /\ stm.pc = "done"
    /\ stm.run = 2
    /\ OffsetsDiffer
    /\ stm.recs[2].path # NULL
    /\ stm.recs[2].size > 0
    /\ stm.table[1].size > 0
    /\ stm.table[2].offset # blob_start(stm.table) + SizesBelow(stm.table, 2)

----
\* ---- do_pack on files that change while it runs:
\* src/src/cli/cli.c 222-307 ----
\* Two inputs, collected in this order.  Every byte of an input carries
\* the input's name, so the bytes of one input read as another's show.

PackedNames == << <<"f">>, <<"g">> >>

PackedInputs == 1..Len(PackedNames)

\* the bytes of input i when it is len bytes long
BytesOf(i, len) == [k \in 1..len |-> PackedNames[i][1]]

Smaller(a, b) == IF a < b THEN a ELSE b

\* the inputs as a tree: input i is the node of path i
InputsTree(files) ==
    { [path |-> i, kind |-> IF files[i].flags = 1 THEN "link" ELSE "file",
       data |-> BytesOf(i, files[i].len)] : i \in PackedInputs }

RepackInit ==
    /\ UnpAtRest
    /\ ImpAtRest
    /\ ProfAtRest
    /\ InstAtRest
    /\ PackAtRest
    /\ LibsAtRestBut("pkc")
    /\ pkc \in { [pc |-> "collect", files |-> f, g_recs |-> <<>>, table |-> <<>>,
                  blobs |-> <<>>, starts |-> <<>>, streamed |-> <<>>, changed |-> {}] :
                    f \in [PackedInputs -> [flags : {0, 1}, len : 0..MaxBlobSize]] }

\* add_path_recursive / rec_append for the next input: st_size of a
\* regular file, the length readlink gave for a symbolic link
PkcCollect ==
    /\ pkc.pc = "collect"
    /\ Len(pkc.g_recs) < Len(PackedNames)
    /\ LET i == Len(pkc.g_recs) + 1
       IN pkc' = [pkc EXCEPT !.g_recs =
                     rec_append(@, PackedNames[i], pkc.files[i].len, pkc.files[i].flags, i)]
    /\ UNCHANGED <<uvars, ivars, pvars, mvars, kvars>>
    /\ LibsUnchangedBut("pkc")

\* another process rewrites input i (a file grows or shrinks, a link is
\* replaced) after it was collected and before it is copied
PkcChange(i, len) ==
    /\ pkc.pc \in {"collect", "stream"}
    /\ i <= Len(pkc.g_recs)
    /\ i > Len(pkc.starts)
    /\ i \notin pkc.changed
    /\ len # pkc.files[i].len
    /\ pkc' = [pkc EXCEPT !.files[i].len = len, !.changed = @ \cup {i}]
    /\ UNCHANGED <<uvars, ivars, pvars, mvars, kvars>>
    /\ LibsUnchangedBut("pkc")

\* lines 248-278: table_size, the offsets, the header and the table
PkcLayout ==
    /\ pkc.pc = "collect"
    /\ Len(pkc.g_recs) = Len(PackedNames)
    /\ pkc' = [pkc EXCEPT !.pc = "stream",
                          !.table = write_archive(InputsTree(pkc.files), pkc.g_recs).table]
    /\ UNCHANGED <<uvars, ivars, pvars, mvars, kvars>>
    /\ LibsUnchangedBut("pkc")

\* lines 281-303: the blob of the next entry.  readlink(src, buf, size + 1)
\* gives at most size + 1 bytes; copy_file_to_stream copies the file to
\* its end.  A length other than the recorded size is at most warned of.
\* After the last blob the archive is closed.
PkcStream ==
    /\ pkc.pc = "stream"
    /\ LET i == Len(pkc.starts) + 1
           now == pkc.files[i].len
           r == IF pkc.g_recs[i].flags = 1 THEN Smaller(now, pkc.g_recs[i].size + 1)
                ELSE now
           bytes == BytesOf(i, r)
       IN pkc' = [pkc EXCEPT
                    !.pc = IF i = Len(PackedNames) THEN "written" ELSE @,
                    !.starts = Append(@, MAGIC_LEN + 8 + TableSize(pkc.g_recs) + Len(pkc.blobs)),
                    !.streamed = Append(@, bytes),
                    !.blobs = @ \o bytes]
    /\ UNCHANGED <<uvars, ivars, pvars, mvars, kvars>>
    /\ LibsUnchangedBut("pkc")

RepackNext ==
    \/ PkcCollect
    \/ \E i \in PackedInputs, len \in 0..MaxBlobSize : PkcChange(i, len)
    \/ PkcLayout
    \/ PkcStream

SpecRepack == RepackInit /\ [][RepackNext]_vars

----
\* ---- properties of do_pack on files that change ----

\* the bytes do_unpack reads for entry i of the archive written: size
\* bytes from blob_start plus the sizes before it ("eof" past the end)
UnpackedBlob(i) ==
    LET start == SizesBefore(pkc.table, i)
    IN [k \in 1..pkc.table[i].size |->
          IF start + k <= Len(pkc.blobs) THEN pkc.blobs[start + k] ELSE "eof"]

\* C35: in every archive do_pack has written, the blob of every entry
\* starts at its recorded blob_offset and has its recorded blob_size, the
\* offsets are consecutive from header_size + table_size, and do_unpack
\* reads for every entry the bytes that were written for it.
C35_ArchiveSelfConsistent ==
    pkc.pc = "written" =>
        \A i \in PackedInputs :
            /\ pkc.starts[i] = pkc.table[i].offset
            /\ Len(pkc.streamed[i]) = pkc.table[i].size
            /\ pkc.table[i].offset = MAGIC_LEN + 8 + TableSize(pkc.table) + SizesBefore(pkc.table, i)
            /\ UnpackedBlob(i) = pkc.streamed[i]

----
\* ---- the first activation on a root set up by fs_init ----

\* C36: when the first run on a root that fs_init set up has assembled a
\* profile, promoted it and come back from profile_atomic_activate, the
\* call returned 0 and R/vir is a symbolic link that names the promoted
\* profile directory.
C36_FirstActivationAfterInit ==
    \A p \in Procs :
        ( /\ FsInitRoot \subseteq inst[p].pfs0
          /\ inst[p].seq = 1
          /\ prof[p].pc = "returned"
          /\ ~prof[p].dead
          /\ prof[p].final # <<>> )
            => /\ prof[p].rc = 0
               /\ Has(pfs, vir_path)
               /\ Node(pfs, vir_path).kind = "link"
               /\ Node(pfs, vir_path).data = prof[p].final

----
\* ---- an activation after one that was killed ----

\* q was killed between its symlink of vir-new and its rename
KilledBeforeSwap(q) == prof[q].dead /\ prof[q].pc = "swap"

----
\* ---- the transaction log of profile_atomic_activate ----

\* Roots for the calls that follow one another: nothing activated yet, a
\* profile active, R/tmp taken by a regular file, or the root as fs_init
\* left it (R/vir and R/tmp are directories).
TxnInit ==
    /\ UnpAtRest
    /\ ImpAtRest
    /\ InstAtRest
    /\ PackAtRest
    /\ LibAtRest
    /\ pfs \in { StoreNodes, StoreNodes \cup ActiveProfile,
                 StoreNodes \cup {FileNode(txn_dir, <<>>)},
                 StoreNodes \cup FsInitRoot }
    /\ prof = [p \in Procs |-> IdleProf]
    /\ pact = [vir0 |-> VirTarget(pfs), final |-> <<>>,
               kept |-> Under(pfs, profiles_dir \o << <<"default-100-1">> >>)]

SpecTxn == TxnInit /\ [][SeqNext]_vars

\* the rename of p's call put p's profile under R/vir
Swapped(p) == prof[p].final # <<>> /\ prof[p].published = prof[p].final

\* C38: a file R/tmp/txn-<pid>-<nsec>.log exists only when the rename of
\* the call of that pid and nsec had put its profile under R/vir, and it
\* then holds that profile's path; and a call whose rename succeeded
\* returns 0, whether or not R/tmp could be made and the log written.
C38_LogOnlyAfterSwap ==
    /\ \A p \in Procs, ns \in Nsecs :
          Has(pfs, txn_path_of(p, ns))
              => /\ prof[p].ns = ns
                 /\ Swapped(p)
                 /\ Node(pfs, txn_path_of(p, ns)).kind = "file"
                 /\ Node(pfs, txn_path_of(p, ns)).data = prof[p].final
    /\ \A p \in Procs :
          (prof[p].pc = "returned" /\ prof[p].final # <<>>)
              => (Swapped(p) <=> prof[p].rc = 0)

\* R/tmp is a regular file: the call returned 0 after its rename and
\* wrote no log
C38_Witness ==
    \E p \in Procs :
        /\ Has(pfs, txn_dir)
        /\ Node(pfs, txn_dir).kind = "file"
        /\ prof[p].pc = "returned"
        /\ prof[p].rc = 0
        /\ Swapped(p)
        /\ VirTarget(pfs) = prof[p].final
        /\ ~Has(pfs, txn_path_of(p, prof[p].ns))

----
\* ---- the importer and a failing unpack ----

\* C39: whenever a call of store_import_pkg_atomic has ended, it has
\* returned to its caller: the process never exits inside the importer.
C39_ImporterAlwaysReturns ==
    \A p \in Procs : Ended(p) => imp[p].pc = "returned"

----
\* ---- the exit status of the install command ----

\* C40: when the install command has exited with status 0 after an
\* activation was requested and confirmed, neither profile_assemble_tmp
\* nor profile_atomic_activate has failed.
C40_ZeroStatusMeansActivated ==
    \A p \in Procs :
        (inst[p].pc = "exit" /\ inst[p].status = 0 /\ prof[p].pc = "returned")
            => (~AsmFailed(p) /\ prof[p].rc = 0)

====
